---- MODULE Spec2Model ----
(***************************************************************************)
(* LibLinuxTray: the event-loop owner (QtThreadManager), the manager       *)
(* singleton (SNIWrapperManager) and the C entry points that start and     *)
(* stop them, as a state machine over caller threads and the owner thread. *)
(*                                                                         *)
(* Qt semantics the code relies on, modelled as Qt defines them:           *)
(*  - QThread::wait() blocks until the thread has returned from run();     *)
(*  - a QObject lives in the thread that constructed it, and a functor     *)
(*    invoked with (Blocking)QueuedConnection on a context object is       *)
(*    posted to the event queue of the thread the object lives in and      *)
(*    runs when that thread dispatches its events;                         *)
(*  - QThread::currentThread() == this holds only inside run();            *)
(*  - posted events of one thread are delivered in posting order;          *)
(*  - a BlockingQueuedConnection caller is released when the posted call   *)
(*    event has been delivered and destroyed.                              *)
(*                                                                         *)
(* The environment is left open: any caller thread may call any entry      *)
(* point, may or may not deliver the events posted to it while it is       *)
(* between two calls (Dispatch), and the platform may or may not tell the  *)
(* QApplication of the owner thread to quit (run_execQuit).                *)
(*                                                                         *)
(* The specifications:                                                     *)
(*  - Spec: the caller threads, QtThreadManager and SNIWrapperManager;     *)
(*  - ExecSpec: the calls of Spec around the polling loop of sni_exec,     *)
(*    with the polling thread scheduled fairly;                            *)
(*  - ItemSpec: one StatusNotifierItem, its property setters, the inbound  *)
(*    Activate / SecondaryActivate calls and the C callbacks;              *)
(*  - MenuSpec: the same item with the menus it is given and the watcher   *)
(*    it registers with;                                                   *)
(*  - SubmenuSpec: the menus, their submenus and the submenu map;          *)
(*  - ApiSpec: the calls on a tray handle, its callbacks and its end;      *)
(*  - HandleSpec: the creation and destruction of handles;                 *)
(*  - EncoderSpec: the pixmap encoder.                                     *)
(* The operations of ItemSpec and of MenuSpec write disjoint members of    *)
(* the item (only setMenuPath writes mMenuPath, only setContextMenu and    *)
(* onMenuDestroyed write mMenu and mMenuExporter), and each operation runs *)
(* to its end on the thread the item lives in.                             *)
(***************************************************************************)
EXTENDS Integers, Sequences, FiniteSets, TLC

\* ---------------------------------------------------------------- bounds
NumCallers == 2
MaxCalls == 4

Callers == 1..NumCallers
Owner == 0
NoThread == Owner - 1

VARIABLES
    pc,          \* position of each caller thread
    stk,         \* return labels of each caller thread (innermost first)
    fnArg,       \* the std::function handed to runBlocking / runAsync
    waitId,      \* the call event a thread blocked in runBlocking waits for
    disp,        \* call events a thread is delivering (innermost first)
    got,         \* value last returned to the thread by SNIWrapperManager::instance()
    loopAlive,   \* the thread's own event loop has not been unwound by an exception
    calls,       \* entry-point calls made so far
    inst,        \* static local `inst` of QtThreadManager::instance()
    creator,     \* thread that ran `new QtThreadManager()`
    thr,         \* QThread state of the owner thread
    opc,         \* position of the owner thread inside run()
    m_app,       \* QtThreadManager::m_app
    exited,      \* the owner loop has been told to exit
    queue,       \* posted events of each thread, oldest first
    work,        \* every submitted call event, by id
    started,     \* ids of call events in the order their functions started
    counter,     \* shared counter incremented by the submitted user function
    s_instance,  \* SNIWrapperManager::s_instance
    mgrThread,   \* thread the live manager object lives in
    mgrApp,      \* SNIWrapperManager::app of the live manager
    mutex,       \* holder of the static QMutex of SNIWrapperManager::instance()
    g_shuttingDown,
    sni_running, \* static std::atomic<bool> sni_running
    hist         \* observations recorded for the properties

\* one StatusNotifierItem, the menus it can be given and the bus around it
VARIABLES
    sni,         \* the fields of the StatusNotifierItem
    built,       \* the constructor of the item has run
    out,         \* what the last operation sent: signals, bus messages, callback calls
    op,          \* the last operation and its argument
    menus,       \* QMenu objects: "none", "alive", "deleting" (deleteLater pending), "destroyed"
    conn,        \* menus whose destroyed() signal is connected to onMenuDestroyed
    slots,       \* the lambdas connected to activateRequested, secondaryActivateRequested
                 \* and scrollRequested, each with the C callback and the data it calls
    kdeSession,  \* the environment names a KDE / Plasma session
    watcherOwner, \* bus name that owns org.kde.StatusNotifierWatcher ("" = nobody)
    nops,        \* operations performed on the item so far
    statusBefore, \* mStatus as the last operation found it
    life,        \* the item object: "none", "alive", "deleting" (deleteLater pending), "destroyed"
    trayCount,   \* static int trayCount
    fault,       \* "crashed" once an access to a destroyed object has ended the process
    pending,     \* Notify calls whose reply the item's thread is blocked on
    timer,       \* threads in which a QTimer::singleShot of destroy_handle is pending
    shutdownBy,  \* threads that have run the shutdown scheduled by destroy_handle
    evs,         \* everything the last operation did, in order: what it sent and the
                 \* export bridges it deleted and created
    byteOrder,   \* QSysInfo::ByteOrder of the host
    pixmaps,     \* what the last direct call of iconToPixmapList returned
    prevMenu,    \* the menu reference the item held before the one it holds now
    submenuToAction, \* static QMap<QMenu*, QAction*> submenuToAction (NoAction = no entry)
    parentOf,    \* QObject parent of each menu (NoMenu = none)
    actions      \* QWidget::actions() of each menu

managerVars == <<pc, stk, fnArg, waitId, disp, got, loopAlive, calls, inst, creator, thr,
                 opc, m_app, exited, queue, work, started, counter, s_instance, mgrThread,
                 mgrApp, mutex, g_shuttingDown, hist, sni_running>>

apiVars == <<life, trayCount, fault, pending, timer, shutdownBy>>

itemVars == <<sni, built, out, op, menus, conn, slots, kdeSession, watcherOwner, nops,
              statusBefore, apiVars, evs, byteOrder, pixmaps, prevMenu, submenuToAction,
              parentOf, actions>>

\* the submenu map and the object tree of the menus
treeVars == <<submenuToAction, parentOf, actions>>

vars == <<managerVars, itemVars>>

\* the signals of the item a C callback can be connected to, and those that have one
CallbackEvents == {"activate", "secondary", "scroll"}
cbs == {e \in CallbackEvents : slots[e] # <<>>}

\* what the threads of the manager level leave alone unless they say otherwise
restVars == <<itemVars, sni_running>>

thrVars == <<thr, opc, m_app, exited>>
mgrVars == <<s_instance, mgrThread, mgrApp>>

\* ---------------------------------------------------------------- helpers
Push(s, l) == <<l>> \o s

\* QThread::currentThread() == this
CurrentThreadIsOwner(c) == c = Owner

\* QObject::thread() of the QtThreadManager object
ThreadOfManagerObject == creator

Released(id) == work[id].st \in {"done", "threw"}

InitHist ==
    [ firstReturn   |-> "pending",  \* owner thread state when instance() first returned
      starts        |-> 0,          \* QThread::start() calls
      ctorRuns      |-> 0,          \* SNIWrapperManager constructor runs
      ctorOn        |-> {},         \* threads that ran the constructor
      doubleCtor    |-> FALSE,      \* a manager was constructed while another one was alive
      dtorOn        |-> {},         \* threads that ran the manager deletion
      dtorThr       |-> {},         \* owner thread state at each manager deletion
      quitReqs      |-> 0,          \* loop quit requests of QtThreadManager::shutdown
      joins         |-> 0,          \* completed joins of QtThreadManager::shutdown
      nullAppQuit   |-> FALSE,      \* quit was invoked on a null m_app
      deadJoin      |-> FALSE,      \* quit/wait were called on a finished thread
      pendingAtStop |-> [c \in Callers |-> {}], \* unfinished work when c requested shutdown
      lostAtJoin    |-> {},         \* of those, not executed when shutdown returned
      silentThrow   |-> {},         \* runBlocking calls that returned normally although fn threw
      nullGot       |-> FALSE,      \* SNIWrapperManager::instance() returned null
      initOkAfterThrow |-> FALSE,   \* init_tray_system returned 0 though the constructor threw
      stops         |-> 0,          \* sni_stop_exec calls
      execEarly     |-> FALSE,      \* sni_exec returned before any sni_stop_exec call
      execReturns   |-> 0,          \* sni_exec calls that have returned
      execKilled    |-> FALSE,      \* an exception in event processing ended the process
                                    \* while a thread was inside sni_exec
      result        |-> [c \in Callers |-> "none"], \* `result` of c's running create_tray
      trayRet       |-> {},         \* values create_tray has returned
      trayModes     |-> {},         \* connection types create_tray dispatched createSNI with
      lateWrite     |-> FALSE,      \* createSNI wrote `result` after create_tray returned
      initAfterShutdown |-> FALSE,  \* init_tray_system returned a live manager after a
                                    \* shutdown_tray_system call had run to its end
      noTeardown    |-> FALSE ]     \* a shutdown_tray_system call made after that returned
                                    \* and left the manager alive

\* ---------------------------------------------------------------- item values
\* bound of the item-level specifications
NumMenus == 2
MaxOps == 3

Menus == 1..NumMenus
\* nullptr as a QMenu* / DBusMenuExporter*
NoMenu == 0

\* QAction objects: nullptr, the menuAction() of each menu, and an item of a menu
NoAction == NoMenu
menuAction(menu) == NumMenus + menu
ItemAction == menuAction(NumMenus) + 1

\* QAction::menu()
menuOf(action) == IF action \in {menuAction(x) : x \in Menus} THEN action - NumMenus ELSE NoMenu

\* argument values the callers use
Titles == {"Test", "Demo"}
StatusArgs == {"Passive", "Active", "NeedsAttention", "Busy"}
IconNames == {"", "a"}
TooltipTexts == {"", "tip"}
Coords == {<<10, 20>>, <<0, 0>>}
BusNames == {"", ":1.7", ":1.9"}

\* ---------------------------------------------------------------- icons and images
\* A QImage: its format, its size and its pixels, one 32-bit word each, row by row.
NullImage == [format |-> "Invalid", width |-> 0, height |-> 0, pixels |-> <<>>]
ImageIsNull(img) == img.width = 0 \/ img.height = 0

\* A QIcon: cacheKey(), availableSizes() and what it renders.  kind "none": nothing (a
\* default-constructed icon, or one built from a file that cannot be read); "bitmap":
\* the image of its file, which it reports as its only size; "fill": a scalable icon
\* that reports no size and renders its colour at any size asked for.
NullIcon == [key |-> 0, kind |-> "none", sizes |-> <<>>, image |-> NullImage]
MissingFileIcon == [key |-> 1, kind |-> "none", sizes |-> <<>>, image |-> NullImage]
BitmapIcon(key, img) ==
    [key |-> key, kind |-> "bitmap",
     sizes |-> <<[w |-> img.width, h |-> img.height]>>, image |-> img]
FillIcon(key, format, colour) ==
    [key |-> key, kind |-> "fill", sizes |-> <<>>,
     image |-> [format |-> format, width |-> 1, height |-> 1, pixels |-> <<colour>>]]

\* A 32-bit word is written as its four bytes, most significant first: the pixel
\* 0xAARRGGBB is <<AA, RR, GG, BB>>.
\* 0xFF112233, 0x80402010, 0x00000000
PixelWords == {<<255, 17, 34, 51>>, <<128, 64, 32, 16>>, <<0, 0, 0, 0>>}

\* the image of the file a.png
APng == [format |-> "ARGB32_Premultiplied", width |-> 2, height |-> 2,
         pixels |-> <<<<255, 17, 34, 51>>, <<128, 64, 32, 16>>,
                      <<0, 0, 0, 0>>, <<255, 17, 34, 51>>>>]

\* the icons the callers of the item use: a default-constructed QIcon has cacheKey 0;
\* two QIcon objects built from the same file have different cache keys and the same
\* image
Icons == {NullIcon, BitmapIcon(1, APng), BitmapIcon(2, APng)}

\* QIcon::availableSizes()
availableSizes(icon) == icon.sizes

\* QIcon::pixmap(size).toImage(): a bitmap is never scaled up, and it is asked for at
\* the size it reports
pixmap(icon, sz) ==
    CASE icon.kind = "none" -> NullImage
      [] icon.kind = "bitmap" -> icon.image
      [] icon.kind = "fill" ->
            [format |-> icon.image.format, width |-> sz.w, height |-> sz.h,
             pixels |-> [i \in 1..(sz.w * sz.h) |-> icon.image.pixels[1]]]

\* qUnpremultiply(p) of Qt
qUnpremultiply(p) ==
    LET alpha == p[1]
        invAlpha == 16711935 \div alpha
        ch(c) == ((c * invAlpha + 32768) \div 65536) % 256
    IN IF alpha = 255 THEN p
       ELSE IF alpha = 0 THEN <<0, 0, 0, 0>>
       ELSE <<alpha, ch(p[2]), ch(p[3]), ch(p[4])>>

\* if (img.format() != QImage::Format_ARGB32) img = img.convertToFormat(Format_ARGB32)
convertToFormat(img) ==
    IF img.format = "ARGB32" THEN img
    ELSE [img EXCEPT !.format = "ARGB32",
                     !.pixels = [i \in 1..Len(img.pixels) |->
                                    IF img.format = "RGB32"
                                    THEN [img.pixels[i] EXCEPT ![1] = 255]
                                    ELSE qUnpremultiply(img.pixels[i])]]

Reverse4(b) == <<b[4], b[3], b[2], b[1]>>

\* a 32-bit word as the host keeps it in memory, and the word the host reads from four
\* bytes of memory
HostBytes(u) == IF byteOrder = "LittleEndian" THEN Reverse4(u) ELSE u
HostWord(b) == IF byteOrder = "LittleEndian" THEN Reverse4(b) ELSE b

\* qToBigEndian that returns its argument
qToBigEndian_asIs(u) == u

\* qToBigEndian(u): the bytes of u swapped on a little-endian host
qToBigEndian(u) == IF byteOrder = "LittleEndian" THEN Reverse4(u) ELSE u

\* QByteArray(img.bits(), img.sizeInBytes()): the memory of the pixels
bits(img) ==
    [k \in 1..(4 * Len(img.pixels)) |->
        HostBytes(img.pixels[((k - 1) \div 4) + 1])[((k - 1) % 4) + 1]]

\* one IconPixmap: width, height and the pixel bytes, every 32-bit word of them passed
\* through qToBigEndian on a little-endian host
IconPixmap(image) ==
    LET img == convertToFormat(image)
        raw == bits(img)
        wordAt(k) == HostWord(SubSeq(raw, 4 * ((k - 1) \div 4) + 1, 4 * ((k - 1) \div 4) + 4))
    IN [width |-> img.width, height |-> img.height,
        bytes |-> IF byteOrder = "LittleEndian"
                  THEN [k \in 1..Len(raw) |->
                           HostBytes(qToBigEndian(wordAt(k)))[((k - 1) % 4) + 1]]
                  ELSE raw]

\* sizes = { {16,16}, {22,22}, {24,24}, {32,32}, {48,48} }
DefaultSizes == <<[w |-> 16, h |-> 16], [w |-> 22, h |-> 22], [w |-> 24, h |-> 24],
                  [w |-> 32, h |-> 32], [w |-> 48, h |-> 48]>>

\* iconToPixmapList(icon)
iconToPixmapList(icon) ==
    LET sizes == IF availableSizes(icon) = <<>> THEN DefaultSizes ELSE availableSizes(icon)
        imgs == [i \in 1..Len(sizes) |-> pixmap(icon, sizes[i])]
        kept == SelectSeq(imgs, LAMBDA g : ~ImageIsNull(g))
        img32 == pixmap(icon, [w |-> 32, h |-> 32])
    IN IF kept # <<>> THEN [i \in 1..Len(kept) |-> IconPixmap(kept[i])]
       ELSE IF ~ImageIsNull(img32) THEN <<IconPixmap(img32)>>
       ELSE <<>>

\* the fixed path a menu is exported at
MenuBarPath == "/MenuBar"

\* noMenuPathForEnvironment()
noMenuPathForEnvironment == IF kdeSession THEN "/NO_DBUSMENU" ELSE "/"

\* the members as the constructor's initializer list leaves them; the members it does
\* not name are default-constructed (empty strings and lists) and the cache keys are 0
BlankItem ==
    [ mTitle |-> "Test", mStatus |-> "Active",
      mMenu |-> NoMenu, mMenuPath |-> "/", mMenuExporter |-> NoMenu,
      mIconName |-> "", mIcon |-> <<>>, mIconCacheKey |-> 0,
      mOverlayIconName |-> "", mOverlayIcon |-> <<>>, mOverlayIconCacheKey |-> 0,
      mAttentionIconName |-> "", mAttentionIcon |-> <<>>, mAttentionIconCacheKey |-> 0,
      mTooltipTitle |-> "", mTooltipSubtitle |-> "",
      mTooltipIconName |-> "", mTooltipIcon |-> <<>>, mTooltipIconCacheKey |-> 0 ]

NoOp == [name |-> "none", arg |-> "none"]

\* no item has been created
ItemInit ==
    /\ sni = BlankItem
    /\ built = FALSE
    /\ out = <<>>
    /\ op = NoOp
    /\ menus = [m \in Menus |-> "none"]
    /\ conn = {}
    /\ slots = [e \in CallbackEvents |-> <<>>]
    /\ submenuToAction = [m \in Menus |-> NoAction]
    /\ parentOf = [m \in Menus |-> NoMenu]
    /\ actions = [m \in Menus |-> {}]
    /\ nops = 0
    /\ statusBefore = BlankItem.mStatus
    /\ life = "none"
    /\ trayCount = 0
    /\ fault = "none"
    /\ pending = "none"
    /\ timer = {}
    /\ shutdownBy = {}
    /\ evs = <<>>
    /\ pixmaps = <<>>
    /\ prevMenu = NoMenu

ManagerInit ==
    /\ pc = [c \in Callers |-> "idle"]
    /\ stk = [c \in Callers |-> <<>>]
    /\ fnArg = [c \in Callers |-> "none"]
    /\ waitId = [c \in Callers |-> 0]
    /\ disp = [c \in Callers |-> <<>>]
    /\ got = [c \in Callers |-> "unset"]
    /\ loopAlive = [c \in Callers |-> TRUE]
    /\ calls = 0
    /\ inst = "uninit"
    /\ creator = NoThread
    /\ thr = "notstarted"
    /\ opc = "none"
    /\ m_app = "null"
    /\ exited = FALSE
    /\ queue = [t \in Callers \cup {Owner} |-> <<>>]
    /\ work = <<>>
    /\ started = <<>>
    /\ counter = 0
    /\ s_instance = "null"
    /\ mgrThread = NoThread
    /\ mgrApp = "null"
    /\ mutex = NoThread
    /\ g_shuttingDown = FALSE
    /\ sni_running = TRUE
    /\ hist = InitHist

Init ==
    /\ ManagerInit
    /\ ItemInit
    /\ byteOrder = "LittleEndian"
    /\ kdeSession = FALSE
    /\ watcherOwner = ""

\* ---------------------------------------------------------------- control flow
Goto(c, l) == pc' = [pc EXCEPT ![c] = l]

Return(c) ==
    /\ pc' = [pc EXCEPT ![c] = Head(stk[c])]
    /\ stk' = [stk EXCEPT ![c] = Tail(stk[c])]

CallFrom(c, target, rets) ==
    /\ pc' = [pc EXCEPT ![c] = target]
    /\ stk' = [stk EXCEPT ![c] = rets \o stk[c]]

Unfinished == {i \in 1..Len(work) : work[i].st \in {"queued", "running"}}

\* the functions a caller hands to runBlocking / runAsync: one that increments the
\* shared counter and one that throws
UserFns == {"user", "throw"}

\* ---------------------------------------------------------------- entry points
\* QtThreadManager::instance()->runBlocking(fn) from a caller thread
call_runBlocking(c) ==
    /\ pc[c] = "idle" /\ calls < MaxCalls
    /\ \E f \in UserFns : fnArg' = [fnArg EXCEPT ![c] = f]
    /\ CallFrom(c, "inst", <<"rb", "idle">>)
    /\ calls' = calls + 1
    /\ UNCHANGED <<waitId, disp, got, loopAlive, inst, creator, thrVars, queue, work,
                   started, counter, mgrVars, mutex, g_shuttingDown, hist>>
    /\ UNCHANGED restVars

\* QtThreadManager::instance()->runAsync(fn) from a caller thread
call_runAsync(c) ==
    /\ pc[c] = "idle" /\ calls < MaxCalls
    /\ \E f \in UserFns : fnArg' = [fnArg EXCEPT ![c] = f]
    /\ CallFrom(c, "inst", <<"ra", "idle">>)
    /\ calls' = calls + 1
    /\ UNCHANGED <<waitId, disp, got, loopAlive, inst, creator, thrVars, queue, work,
                   started, counter, mgrVars, mutex, g_shuttingDown, hist>>
    /\ UNCHANGED restVars

\* thread x is inside SNIWrapperManager::shutdown or QtThreadManager::shutdown
InShutdown(x) ==
    \/ pc[x] \in {"ms", "qs", "qs_quit", "qs_join"}
    \/ \E k \in 1..Len(stk[x]) : stk[x][k] \in {"qs", "qs_quit"}

\* a shutdown_tray_system call has set the flag and no thread is inside a shutdown
ShutdownCompleted == g_shuttingDown /\ \A x \in Callers : ~InShutdown(x)

\* init_tray_system(): try { SNIWrapperManager::instance(); ...
init_tray_system(c) ==
    /\ pc[c] = "idle" /\ calls < MaxCalls
    /\ CallFrom(c, "mi", <<"its_ret", "idle">>)
    /\ calls' = calls + 1
    /\ UNCHANGED <<fnArg, waitId, disp, got, loopAlive, inst, creator, thrVars, queue,
                   work, started, counter, mgrVars, mutex, g_shuttingDown, hist>>
    /\ UNCHANGED restVars

\* shutdown_tray_system(): compare_exchange on g_shuttingDown, then
\* SNIWrapperManager::shutdown(); QtThreadManager::shutdown()
shutdown_tray_system(c) ==
    /\ pc[c] = "idle" /\ calls < MaxCalls
    /\ calls' = calls + 1
    /\ IF g_shuttingDown
       THEN /\ hist' = [hist EXCEPT !.noTeardown =
                           @ \/ (hist.initAfterShutdown /\ ShutdownCompleted
                                 /\ s_instance = "live")]
            /\ UNCHANGED <<pc, stk, g_shuttingDown>>
       ELSE /\ g_shuttingDown' = TRUE
            /\ CallFrom(c, "ms", <<"qs", "idle">>)
            /\ hist' = [hist EXCEPT !.pendingAtStop[c] = Unfinished]
    /\ UNCHANGED <<fnArg, waitId, disp, got, loopAlive, inst, creator, thrVars, queue,
                   work, started, counter, mgrVars, mutex>>
    /\ UNCHANGED restVars

\* QtThreadManager::shutdown() called directly
call_shutdown(c) ==
    /\ pc[c] = "idle" /\ calls < MaxCalls
    /\ calls' = calls + 1
    /\ CallFrom(c, "qs", <<"idle">>)
    /\ hist' = [hist EXCEPT !.pendingAtStop[c] = Unfinished]
    /\ UNCHANGED <<fnArg, waitId, disp, got, loopAlive, inst, creator, thrVars, queue,
                   work, started, counter, mgrVars, mutex, g_shuttingDown>>
    /\ UNCHANGED restVars

\* ... return 0; } catch (const std::exception &) { return -1; }  The handler is
\* reached by an exception thrown in the calling thread only; the constructor runs in
\* the thread that delivers the posted call, so the function returns 0 here.
init_tray_system_return(c) ==
    /\ pc[c] = "its_ret"
    /\ hist' = [hist EXCEPT !.initOkAfterThrow =
                   @ \/ \E i \in 1..Len(work) :
                           work[i].by = c /\ work[i].fn = "ctor" /\ work[i].st = "threw",
                            !.initAfterShutdown =
                   @ \/ (ShutdownCompleted /\ got[c] = "live" /\ s_instance = "live")]
    /\ Return(c)
    /\ UNCHANGED <<fnArg, waitId, disp, got, loopAlive, calls, inst, creator, thrVars, queue,
                   work, started, counter, mgrVars, mutex, g_shuttingDown>>
    /\ UNCHANGED restVars

\* sni_running.store(true) at the end of sni_exec
RunningAfterExec == TRUE

\* sni_exec(): enters the polling loop
sni_exec(c) ==
    /\ pc[c] = "idle" /\ calls < MaxCalls
    /\ calls' = calls + 1
    /\ Goto(c, "exec")
    /\ UNCHANGED <<stk, fnArg, waitId, disp, got, loopAlive, inst, creator, thrVars, queue,
                   work, started, counter, mgrVars, mutex, g_shuttingDown, hist>>
    /\ UNCHANGED restVars

\* while (sni_running.load()) { try { sni_process_events(); usleep(100000); }
\* catch (...) { log } }  sni_running.store(true); return 0;
\* The handlers are reached by an exception thrown in the calling thread only, and the
\* calling thread runs no unit of work while it is inside sni_process_events: it is
\* blocked in runBlocking.
sni_exec_loop(c) ==
    /\ pc[c] = "exec"
    /\ IF sni_running
       THEN /\ Len(work) < MaxCalls
            /\ fnArg' = [fnArg EXCEPT ![c] = "pump"]
            /\ CallFrom(c, "inst", <<"rb", "exec">>)
            /\ UNCHANGED <<sni_running, hist>>
       ELSE /\ sni_running' = RunningAfterExec
            /\ hist' = [hist EXCEPT !.execEarly = @ \/ hist.stops = 0,
                                    !.execReturns = @ + 1]
            /\ Goto(c, "idle")
            /\ UNCHANGED <<stk, fnArg>>
    /\ UNCHANGED <<waitId, disp, got, loopAlive, calls, inst, creator, thrVars, queue, work,
                   started, counter, mgrVars, mutex, g_shuttingDown>>
    /\ UNCHANGED itemVars

\* sni_stop_exec(): sni_running.store(false)
sni_stop_exec(c) ==
    /\ pc[c] = "idle" /\ calls < MaxCalls
    /\ calls' = calls + 1
    /\ sni_running' = FALSE
    /\ hist' = [hist EXCEPT !.stops = @ + 1]
    /\ UNCHANGED <<pc, stk, fnArg, waitId, disp, got, loopAlive, inst, creator, thrVars,
                   queue, work, started, counter, mgrVars, mutex, g_shuttingDown>>
    /\ UNCHANGED itemVars

\* clear_menu(menu_handle): auto mgr = SNIWrapperManager::instance(); ...
clear_menu(c) ==
    /\ pc[c] = "idle" /\ calls < MaxCalls
    /\ calls' = calls + 1
    /\ CallFrom(c, "mi", <<"cm", "idle">>)
    /\ UNCHANGED <<fnArg, waitId, disp, got, loopAlive, inst, creator, thrVars, queue,
                   work, started, counter, mgrVars, mutex, g_shuttingDown, hist>>
    /\ UNCHANGED restVars

\* ... QMetaObject::invokeMethod(mgr, lambda, safeConn(mgr)): invoked on a null context
\* it does nothing; safeConn calls the lambda directly on the manager's thread and
\* posts a blocking call from any other thread.  A manager deleted since instance()
\* returned is a dangling pointer: the call is lost or the process ends.
clear_menu_invoke(c) ==
    /\ pc[c] = "cm"
    /\ IF got[c] # "live"
       THEN /\ Return(c)
            /\ UNCHANGED <<work, started, disp, queue, waitId, loopAlive, opc>>
       ELSE IF s_instance # "live"
       THEN \E outcome \in {"lost", "terminate"} :
              IF outcome = "lost"
              THEN /\ Return(c)
                   /\ UNCHANGED <<work, started, disp, queue, waitId, loopAlive, opc>>
              ELSE /\ pc' = [x \in Callers |-> "terminated"]
                   /\ opc' = "terminated"
                   /\ loopAlive' = [x \in Callers |-> FALSE]
                   /\ UNCHANGED <<stk, work, started, disp, queue, waitId>>
       ELSE IF c = mgrThread
       THEN /\ work' = Append(work, [fn |-> "spin", blocking |-> TRUE, by |-> c,
                                     on |-> c, st |-> "running", returned |-> FALSE])
            /\ started' = Append(started, Len(work) + 1)
            /\ disp' = [disp EXCEPT ![c] = Push(@, Len(work) + 1)]
            /\ Goto(c, "fn")
            /\ UNCHANGED <<stk, queue, waitId, loopAlive, opc>>
       ELSE /\ work' = Append(work, [fn |-> "spin", blocking |-> TRUE, by |-> c,
                                     on |-> NoThread, st |-> "queued", returned |-> FALSE])
            /\ queue' = [queue EXCEPT ![mgrThread] = Append(@, Len(work) + 1)]
            /\ waitId' = [waitId EXCEPT ![c] = Len(work) + 1]
            /\ Goto(c, "rb_wait")
            /\ UNCHANGED <<stk, started, disp, loopAlive, opc>>
    /\ UNCHANGED <<fnArg, got, calls, inst, creator, thr, m_app, exited, counter, mgrVars,
                   mutex, g_shuttingDown, hist>>
    /\ UNCHANGED restVars

\* create_tray(id) with a non-null id: trayCount++; StatusNotifierItem *result = nullptr;
\* auto mgr = SNIWrapperManager::instance(); ...
create_tray_dispatch(c) ==
    /\ pc[c] = "idle" /\ calls < MaxCalls
    /\ calls' = calls + 1
    /\ trayCount' = trayCount + 1
    /\ hist' = [hist EXCEPT !.result[c] = "null"]
    /\ CallFrom(c, "mi", <<"ct", "ct_ret", "idle">>)
    /\ UNCHANGED <<fnArg, waitId, disp, got, loopAlive, inst, creator, thrVars, queue,
                   work, started, counter, mgrVars, mutex, g_shuttingDown>>
    /\ UNCHANGED <<sni, built, out, op, menus, conn, slots, kdeSession, watcherOwner, nops,
                   statusBefore, life, fault, pending, timer, shutdownBy, evs, byteOrder,
                   pixmaps, prevMenu, treeVars, sni_running>>

\* safeConn(receiver): Qt::QueuedConnection for a null receiver, Qt::DirectConnection on
\* the receiver's thread, Qt::BlockingQueuedConnection on any other thread
safeConn(c) ==
    IF got[c] # "live" THEN "Queued"
    ELSE IF c = mgrThread THEN "Direct" ELSE "BlockingQueued"

\* ... QMetaObject::invokeMethod(mgr, [&]() { result = mgr->createSNI(id); },
\* safeConn(mgr)): nothing is invoked on a null context; a manager deleted since
\* instance() returned is a dangling pointer.
create_tray_invoke(c) ==
    /\ pc[c] = "ct"
    /\ IF got[c] # "live"
       THEN /\ Return(c)
            /\ UNCHANGED <<work, started, disp, queue, waitId, loopAlive, opc, hist>>
       ELSE IF s_instance # "live"
       THEN \E outcome \in {"lost", "terminate"} :
              IF outcome = "lost"
              THEN /\ Return(c)
                   /\ UNCHANGED <<work, started, disp, queue, waitId, loopAlive, opc, hist>>
              ELSE /\ pc' = [x \in Callers |-> "terminated"]
                   /\ opc' = "terminated"
                   /\ loopAlive' = [x \in Callers |-> FALSE]
                   /\ UNCHANGED <<stk, work, started, disp, queue, waitId, hist>>
       ELSE /\ hist' = [hist EXCEPT !.trayModes = @ \cup {safeConn(c)}]
            /\ IF safeConn(c) = "Direct"
               THEN /\ work' = Append(work, [fn |-> "createSNI", blocking |-> TRUE, by |-> c,
                                             on |-> c, st |-> "running", returned |-> FALSE])
                    /\ started' = Append(started, Len(work) + 1)
                    /\ disp' = [disp EXCEPT ![c] = Push(@, Len(work) + 1)]
                    /\ Goto(c, "fn")
                    /\ UNCHANGED <<stk, queue, waitId, loopAlive, opc>>
               ELSE /\ work' = Append(work, [fn |-> "createSNI",
                                             blocking |-> safeConn(c) = "BlockingQueued",
                                             by |-> c, on |-> NoThread, st |-> "queued",
                                             returned |-> FALSE])
                    /\ queue' = [queue EXCEPT ![mgrThread] = Append(@, Len(work) + 1)]
                    /\ waitId' = [waitId EXCEPT ![c] = Len(work) + 1]
                    /\ Goto(c, "rb_wait")
                    /\ UNCHANGED <<stk, started, disp, loopAlive, opc>>
    /\ UNCHANGED <<fnArg, got, calls, inst, creator, thr, m_app, exited, counter, mgrVars,
                   mutex, g_shuttingDown>>
    /\ UNCHANGED restVars

\* return result;
create_tray_return(c) ==
    /\ pc[c] = "ct_ret"
    /\ hist' = [hist EXCEPT !.trayRet = @ \cup {hist.result[c]}, !.result[c] = "none"]
    /\ Return(c)
    /\ UNCHANGED <<fnArg, waitId, disp, got, loopAlive, calls, inst, creator, thrVars,
                   queue, work, started, counter, mgrVars, mutex, g_shuttingDown>>
    /\ UNCHANGED restVars

\* sni_process_events(): QtThreadManager::instance()->runBlocking(pump)
sni_process_events(c) ==
    /\ pc[c] = "idle" /\ calls < MaxCalls
    /\ calls' = calls + 1
    /\ fnArg' = [fnArg EXCEPT ![c] = "pump"]
    /\ CallFrom(c, "inst", <<"rb", "idle">>)
    /\ UNCHANGED <<waitId, disp, got, loopAlive, inst, creator, thrVars, queue, work,
                   started, counter, mgrVars, mutex, g_shuttingDown, hist>>
    /\ UNCHANGED restVars

\* ---------------------------------------------------------------- QtThreadManager::instance
\* static QtThreadManager* inst = []{ new; start(); wait(); }(): the first thread to
\* arrive runs the initializer, threads arriving meanwhile block on the static guard
QtThreadManager_instance(c) ==
    /\ pc[c] = "inst"
    /\ inst # "init"
    /\ IF inst = "uninit"
       THEN /\ inst' = "init"
            /\ creator' = c
            /\ thr' = "running"
            /\ opc' = "run_newapp"
            /\ hist' = [hist EXCEPT !.starts = @ + 1]
            /\ Goto(c, "inst_wait")
            /\ UNCHANGED stk
       ELSE /\ Return(c)
            /\ UNCHANGED <<inst, creator, thr, opc, hist>>
    /\ UNCHANGED <<fnArg, waitId, disp, got, loopAlive, calls, m_app, exited, queue,
                   work, started, counter, mgrVars, mutex, g_shuttingDown>>
    /\ UNCHANGED restVars

\* t->wait(): QThread::wait() returns once the thread is no longer running
QtThreadManager_instance_wait(c) ==
    /\ pc[c] = "inst_wait"
    /\ thr # "running"
    /\ inst' = "done"
    /\ hist' = [hist EXCEPT !.firstReturn = thr]
    /\ Return(c)
    /\ UNCHANGED <<fnArg, waitId, disp, got, loopAlive, calls, creator, thrVars, queue,
                   work, started, counter, mgrVars, mutex, g_shuttingDown>>
    /\ UNCHANGED restVars

\* ---------------------------------------------------------------- QtThreadManager::run
\* m_app = new QApplication(argc, nullptr)
run_newApp ==
    /\ opc = "run_newapp"
    /\ m_app' = "live"
    /\ opc' = "run_exec"
    /\ UNCHANGED <<pc, stk, fnArg, waitId, disp, got, loopAlive, calls, inst, creator,
                   thr, exited, queue, work, started, counter, mgrVars, mutex,
                   g_shuttingDown, hist>>
    /\ UNCHANGED restVars

\* exec() is left only when the loop is told to exit.  No code of the library can
\* reach the thread object before instance() has returned, so while the loop runs the
\* request can only come from the platform (QCoreApplication::quit on session end).
run_execQuit ==
    /\ opc = "run_exec"
    /\ ~exited
    /\ exited' = TRUE
    /\ UNCHANGED <<pc, stk, fnArg, waitId, disp, got, loopAlive, calls, inst, creator,
                   thr, opc, m_app, queue, work, started, counter, mgrVars, mutex,
                   g_shuttingDown, hist>>
    /\ UNCHANGED restVars

\* exec() returns; delete m_app; m_app = nullptr; the thread finishes
run_exit ==
    /\ opc = "run_exec"
    /\ exited
    /\ m_app' = "null"
    /\ opc' = "finished"
    /\ thr' = "finished"
    /\ exited' = FALSE
    /\ UNCHANGED <<pc, stk, fnArg, waitId, disp, got, loopAlive, calls, inst, creator,
                   queue, work, started, counter, mgrVars, mutex, g_shuttingDown, hist>>
    /\ UNCHANGED restVars

\* ---------------------------------------------------------------- runBlocking / runAsync
\* QMetaObject::invokeMethod(this, [fn]{ fn(); }, type): the call event is posted to
\* the thread the QtThreadManager object lives in
PostCall(c, blocking) ==
    /\ work' = Append(work, [fn |-> fnArg[c], blocking |-> blocking, by |-> c,
                             on |-> NoThread, st |-> "queued", returned |-> FALSE])
    /\ queue' = [queue EXCEPT ![ThreadOfManagerObject] = Append(@, Len(work) + 1)]

\* if (QThread::currentThread() == this) { fn(); return; } else invokeMethod(...,
\* Qt::BlockingQueuedConnection): post the call and block on its semaphore
runBlocking(c) ==
    /\ pc[c] = "rb"
    /\ IF CurrentThreadIsOwner(c)
       THEN /\ work' = Append(work, [fn |-> fnArg[c], blocking |-> TRUE, by |-> c,
                                     on |-> c, st |-> "running", returned |-> FALSE])
            /\ started' = Append(started, Len(work) + 1)
            /\ disp' = [disp EXCEPT ![c] = Push(@, Len(work) + 1)]
            /\ Goto(c, "fn")
            /\ UNCHANGED <<stk, queue, waitId>>
       ELSE /\ PostCall(c, TRUE)
            /\ waitId' = [waitId EXCEPT ![c] = Len(work) + 1]
            /\ Goto(c, "rb_wait")
            /\ UNCHANGED <<stk, started, disp>>
    /\ UNCHANGED <<fnArg, got, loopAlive, calls, inst, creator, thrVars, counter,
                   mgrVars, mutex, g_shuttingDown, hist>>
    /\ UNCHANGED restVars

\* the semaphore of the posted call is released when the call event is destroyed
runBlocking_return(c) ==
    /\ pc[c] = "rb_wait"
    /\ Released(waitId[c])
    /\ hist' = [hist EXCEPT !.silentThrow =
                   IF work[waitId[c]].st = "threw" THEN @ \cup {waitId[c]} ELSE @]
    /\ work' = [work EXCEPT ![waitId[c]].returned = TRUE]
    /\ waitId' = [waitId EXCEPT ![c] = 0]
    /\ Return(c)
    /\ UNCHANGED <<fnArg, disp, got, loopAlive, calls, inst, creator, thrVars, queue,
                   started, counter, mgrVars, mutex, g_shuttingDown>>
    /\ UNCHANGED restVars

\* invokeMethod(this, [fn]{ fn(); }, Qt::QueuedConnection)
runAsync(c) ==
    /\ pc[c] = "ra"
    /\ PostCall(c, FALSE)
    /\ Return(c)
    /\ UNCHANGED <<fnArg, waitId, disp, got, loopAlive, calls, inst, creator, thrVars,
                   started, counter, mgrVars, mutex, g_shuttingDown, hist>>
    /\ UNCHANGED restVars

\* ---------------------------------------------------------------- delivery of posted calls
\* A thread delivers the oldest call posted to it when it is in its event loop: between
\* two entry-point calls, or inside QCoreApplication::processEvents.
Dispatch(c) ==
    /\ pc[c] \in {"idle", "pe"}
    /\ loopAlive[c]
    /\ queue[c] # <<>>
    /\ LET id == Head(queue[c]) IN
        /\ queue' = [queue EXCEPT ![c] = Tail(@)]
        /\ work' = [work EXCEPT ![id].on = c, ![id].st = "running"]
        /\ started' = Append(started, id)
        /\ disp' = [disp EXCEPT ![c] = Push(@, id)]
    /\ CallFrom(c, "fn", <<pc[c]>>)
    /\ UNCHANGED <<fnArg, waitId, got, loopAlive, calls, inst, creator, thrVars,
                   counter, mgrVars, mutex, g_shuttingDown, hist>>
    /\ UNCHANGED restVars

CurFn(c) == work[Head(disp[c])].fn

\* the call returns: the event is destroyed, which releases a blocked caller
Finish(c) ==
    /\ work' = [work EXCEPT ![Head(disp[c])].st = "done"]
    /\ disp' = [disp EXCEPT ![c] = Tail(@)]
    /\ Return(c)

\* fn of the caller: increments the shared counter
FnUser(c) ==
    /\ pc[c] = "fn" /\ CurFn(c) = "user"
    /\ counter' = counter + 1
    /\ Finish(c)
    /\ UNCHANGED <<fnArg, waitId, got, loopAlive, calls, inst, creator, thrVars, queue,
                   started, mgrVars, mutex, g_shuttingDown, hist>>
    /\ UNCHANGED restVars

\* fn of the caller throws.  Neither runBlocking, runAsync nor the posted lambda has a
\* handler and Qt leaves an exception that escapes a slot undefined: either it unwinds
\* the event loop that delivered the call (every call event being delivered is destroyed
\* on the way, which releases its blocked caller, and a QMutexLocker unlocks), or the
\* process is terminated and no thread takes another step.
ThrowOutcomes == {"unwind", "terminate"}

Throw(c, outcome) ==
    IF outcome = "unwind"
    THEN /\ work' = [i \in 1..Len(work) |->
                        IF \E k \in 1..Len(disp[c]) : disp[c][k] = i
                        THEN [work[i] EXCEPT !.st = "threw"] ELSE work[i]]
         /\ disp' = [disp EXCEPT ![c] = <<>>]
         /\ loopAlive' = [loopAlive EXCEPT ![c] = FALSE]
         /\ mutex' = IF mutex = c THEN NoThread ELSE mutex
         /\ pc' = [pc EXCEPT ![c] = "idle"]
         /\ stk' = [stk EXCEPT ![c] = <<>>]
         /\ UNCHANGED opc
    ELSE /\ pc' = [x \in Callers |-> "terminated"]
         /\ opc' = "terminated"
         /\ loopAlive' = [x \in Callers |-> FALSE]
         /\ UNCHANGED <<work, disp, mutex, stk>>

\* thread t is inside sni_exec
InExec(t) == pc[t] = "exec" \/ \E k \in 1..Len(stk[t]) : stk[t][k] = "exec"

\* thread c is processing events while a thread polls in sni_exec
DuringExecPump(c) == \E t \in Callers : InExec(t)

FnThrow(c) ==
    /\ pc[c] = "fn" /\ CurFn(c) = "throw"
    /\ \E outcome \in ThrowOutcomes :
        /\ Throw(c, outcome)
        /\ hist' = [hist EXCEPT !.execKilled =
                        @ \/ (outcome = "terminate" /\ DuringExecPump(c))]
    /\ UNCHANGED <<fnArg, waitId, got, calls, inst, creator, thr, m_app, exited, queue,
                   started, counter, mgrVars, g_shuttingDown>>
    /\ UNCHANGED restVars

\* [] { s_instance = new SNIWrapperManager(); }   (constructor: app(qApp)).  The
\* construction can fail (new throws std::bad_alloc): s_instance is not assigned and
\* the exception leaves the lambda as the one of FnThrow does.
FnCtor(c) ==
    /\ pc[c] = "fn" /\ CurFn(c) = "ctor"
    /\ \E outcome \in {"built"} \cup ThrowOutcomes :
        IF outcome = "built"
        THEN /\ s_instance' = "live"
             /\ mgrThread' = c
             /\ mgrApp' = m_app
             /\ hist' = [hist EXCEPT !.ctorRuns = @ + 1, !.ctorOn = @ \cup {c},
                                     !.doubleCtor = @ \/ s_instance = "live"]
             /\ Finish(c)
             /\ UNCHANGED <<loopAlive, mutex, opc>>
        ELSE /\ Throw(c, outcome)
             /\ hist' = [hist EXCEPT !.execKilled =
                             @ \/ (outcome = "terminate" /\ DuringExecPump(c))]
             /\ UNCHANGED mgrVars
    /\ UNCHANGED <<fnArg, waitId, got, calls, inst, creator, thr, m_app, exited, queue,
                   started, counter, g_shuttingDown>>
    /\ UNCHANGED restVars

\* [] { delete s_instance; s_instance = nullptr; }
FnDtor(c) ==
    /\ pc[c] = "fn" /\ CurFn(c) = "dtor"
    /\ s_instance' = "null"
    /\ mgrThread' = NoThread
    /\ mgrApp' = "null"
    /\ hist' = IF s_instance = "live"
               THEN [hist EXCEPT !.dtorOn = @ \cup {c}, !.dtorThr = @ \cup {thr}]
               ELSE hist
    /\ Finish(c)
    /\ UNCHANGED <<fnArg, waitId, got, loopAlive, calls, inst, creator, thrVars, queue,
                   started, counter, mutex, g_shuttingDown>>
    /\ UNCHANGED restVars

\* [] { auto mgr = SNIWrapperManager::instance(); ... }
FnPump(c) ==
    /\ pc[c] = "fn" /\ CurFn(c) = "pump"
    /\ CallFrom(c, "mi", <<"pump_after">>)
    /\ UNCHANGED <<fnArg, waitId, disp, got, loopAlive, calls, inst, creator, thrVars,
                   queue, work, started, counter, mgrVars, mutex, g_shuttingDown, hist>>
    /\ UNCHANGED restVars

\* the lambda of clear_menu: the actions are disconnected, the menu is cleared and
\* qApp->processEvents(QEventLoop::ExcludeUserInputEvents) delivers the events posted
\* to the thread that runs the lambda (processEvents is a static member)
FnSpin(c) ==
    /\ pc[c] = "fn" /\ CurFn(c) = "spin"
    /\ Goto(c, "pe")
    /\ UNCHANGED <<stk, fnArg, waitId, disp, got, loopAlive, calls, inst, creator,
                   thrVars, queue, work, started, counter, mgrVars, mutex,
                   g_shuttingDown, hist>>
    /\ UNCHANGED restVars

\* the lambda of create_tray: result = mgr->createSNI(id), a write through the
\* reference to the caller's stack variable
FnCreateSNI(c) ==
    /\ pc[c] = "fn" /\ CurFn(c) = "createSNI"
    /\ LET id == Head(disp[c]) IN
        hist' = [hist EXCEPT !.result[work[id].by] = "item",
                             !.lateWrite = @ \/ work[id].returned]
    /\ Finish(c)
    /\ UNCHANGED <<fnArg, waitId, got, loopAlive, calls, inst, creator, thrVars, queue,
                   started, counter, mgrVars, mutex, g_shuttingDown>>
    /\ UNCHANGED restVars

\* ... if (mgr) mgr->processEvents();   processEvents: if (app) app->processEvents(...)
PumpAfter(c) ==
    /\ pc[c] = "pump_after"
    /\ IF got[c] = "live" /\ mgrApp = "live" THEN Goto(c, "pe") ELSE Goto(c, "fn_end")
    /\ UNCHANGED <<stk, fnArg, waitId, disp, got, loopAlive, calls, inst, creator,
                   thrVars, queue, work, started, counter, mgrVars, mutex,
                   g_shuttingDown, hist>>
    /\ UNCHANGED restVars

\* processEvents returns (after at most 100 ms) and the pump lambda returns
PumpEnd(c) ==
    /\ pc[c] \in {"fn_end", "pe"}
    /\ Finish(c)
    /\ UNCHANGED <<fnArg, waitId, got, loopAlive, calls, inst, creator, thrVars, queue,
                   started, counter, mgrVars, mutex, g_shuttingDown, hist>>
    /\ UNCHANGED restVars

\* ---------------------------------------------------------------- SNIWrapperManager::instance
\* if (!s_instance) {
SNIWrapperManager_instance(c) ==
    /\ pc[c] = "mi"
    /\ IF s_instance = "null" THEN Goto(c, "mi_lock") ELSE Goto(c, "mi_ret")
    /\ UNCHANGED <<stk, fnArg, waitId, disp, got, loopAlive, calls, inst, creator,
                   thrVars, queue, work, started, counter, mgrVars, mutex,
                   g_shuttingDown, hist>>
    /\ UNCHANGED restVars

\* QMutexLocker locker(&mutex);
SNIWrapperManager_instance_lock(c) ==
    /\ pc[c] = "mi_lock"
    /\ mutex = NoThread
    /\ mutex' = c
    /\ Goto(c, "mi_check2")
    /\ UNCHANGED <<stk, fnArg, waitId, disp, got, loopAlive, calls, inst, creator,
                   thrVars, queue, work, started, counter, mgrVars, g_shuttingDown, hist>>
    /\ UNCHANGED restVars

\* if (!s_instance) QtThreadManager::instance()->runBlocking([] { s_instance = new ... });
SNIWrapperManager_instance_create(c) ==
    /\ pc[c] = "mi_check2"
    /\ IF s_instance = "null"
       THEN /\ fnArg' = [fnArg EXCEPT ![c] = "ctor"]
            /\ CallFrom(c, "inst", <<"rb", "mi_unlock">>)
       ELSE /\ Goto(c, "mi_unlock")
            /\ UNCHANGED <<stk, fnArg>>
    /\ UNCHANGED <<waitId, disp, got, loopAlive, calls, inst, creator, thrVars, queue,
                   work, started, counter, mgrVars, mutex, g_shuttingDown, hist>>
    /\ UNCHANGED restVars

\* } the locker goes out of scope
SNIWrapperManager_instance_unlock(c) ==
    /\ pc[c] = "mi_unlock"
    /\ mutex' = NoThread
    /\ Goto(c, "mi_ret")
    /\ UNCHANGED <<stk, fnArg, waitId, disp, got, loopAlive, calls, inst, creator,
                   thrVars, queue, work, started, counter, mgrVars, g_shuttingDown, hist>>
    /\ UNCHANGED restVars

\* return s_instance;
SNIWrapperManager_instance_return(c) ==
    /\ pc[c] = "mi_ret"
    /\ got' = [got EXCEPT ![c] = s_instance]
    /\ hist' = [hist EXCEPT !.nullGot = @ \/ s_instance = "null"]
    /\ Return(c)
    /\ UNCHANGED <<fnArg, waitId, disp, loopAlive, calls, inst, creator, thrVars, queue,
                   work, started, counter, mgrVars, mutex, g_shuttingDown>>
    /\ UNCHANGED restVars

\* ---------------------------------------------------------------- shutdown
\* SNIWrapperManager::shutdown(): if (s_instance) runBlocking([] { delete ... })
SNIWrapperManager_shutdown(c) ==
    /\ pc[c] = "ms"
    /\ IF s_instance # "null"
       THEN /\ fnArg' = [fnArg EXCEPT ![c] = "dtor"]
            /\ CallFrom(c, "inst", <<"rb">>)
       ELSE /\ Return(c)
            /\ UNCHANGED fnArg
    /\ UNCHANGED <<waitId, disp, got, loopAlive, calls, inst, creator, thrVars, queue,
                   work, started, counter, mgrVars, mutex, g_shuttingDown, hist>>
    /\ UNCHANGED restVars

\* QtThreadManager::shutdown(): auto* t = instance();
QtThreadManager_shutdown(c) ==
    /\ pc[c] = "qs"
    /\ CallFrom(c, "inst", <<"qs_quit">>)
    /\ UNCHANGED <<fnArg, waitId, disp, got, loopAlive, calls, inst, creator, thrVars,
                   queue, work, started, counter, mgrVars, mutex, g_shuttingDown, hist>>
    /\ UNCHANGED restVars

\* QMetaObject::invokeMethod(t->m_app, "quit", Qt::QueuedConnection); t->quit();
\* invokeMethod on a null object does nothing; quit() tells the loop to exit
QtThreadManager_shutdown_quit(c) ==
    /\ pc[c] = "qs_quit"
    /\ exited' = TRUE
    /\ hist' = [hist EXCEPT !.quitReqs = @ + 1,
                            !.nullAppQuit = @ \/ m_app = "null",
                            !.deadJoin = @ \/ thr = "finished"]
    /\ Goto(c, "qs_join")
    /\ UNCHANGED <<stk, fnArg, waitId, disp, got, loopAlive, calls, inst, creator, thr,
                   opc, m_app, queue, work, started, counter, mgrVars, mutex,
                   g_shuttingDown>>
    /\ UNCHANGED restVars

\* t->wait();
QtThreadManager_shutdown_wait(c) ==
    /\ pc[c] = "qs_join"
    /\ thr # "running"
    /\ hist' = [hist EXCEPT !.joins = @ + 1,
                            !.lostAtJoin = @ \cup (hist.pendingAtStop[c] \cap Unfinished)]
    /\ Return(c)
    /\ UNCHANGED <<fnArg, waitId, disp, got, loopAlive, calls, inst, creator, thrVars,
                   queue, work, started, counter, mgrVars, mutex, g_shuttingDown>>
    /\ UNCHANGED restVars

\* ---------------------------------------------------------------- specification
Next ==
    \/ \E c \in Callers : call_runBlocking(c)
    \/ \E c \in Callers : call_runAsync(c)
    \/ \E c \in Callers : init_tray_system(c)
    \/ \E c \in Callers : shutdown_tray_system(c)
    \/ \E c \in Callers : call_shutdown(c)
    \/ \E c \in Callers : init_tray_system_return(c)
    \/ \E c \in Callers : sni_exec(c)
    \/ \E c \in Callers : sni_exec_loop(c)
    \/ \E c \in Callers : sni_stop_exec(c)
    \/ \E c \in Callers : clear_menu(c)
    \/ \E c \in Callers : clear_menu_invoke(c)
    \/ \E c \in Callers : FnSpin(c)
    \/ \E c \in Callers : create_tray_dispatch(c)
    \/ \E c \in Callers : create_tray_invoke(c)
    \/ \E c \in Callers : FnCreateSNI(c)
    \/ \E c \in Callers : create_tray_return(c)
    \/ \E c \in Callers : sni_process_events(c)
    \/ \E c \in Callers : QtThreadManager_instance(c)
    \/ \E c \in Callers : QtThreadManager_instance_wait(c)
    \/ run_newApp
    \/ run_execQuit
    \/ run_exit
    \/ \E c \in Callers : runBlocking(c)
    \/ \E c \in Callers : runBlocking_return(c)
    \/ \E c \in Callers : runAsync(c)
    \/ \E c \in Callers : Dispatch(c)
    \/ \E c \in Callers : FnUser(c)
    \/ \E c \in Callers : FnThrow(c)
    \/ \E c \in Callers : FnCtor(c)
    \/ \E c \in Callers : FnDtor(c)
    \/ \E c \in Callers : FnPump(c)
    \/ \E c \in Callers : PumpAfter(c)
    \/ \E c \in Callers : PumpEnd(c)
    \/ \E c \in Callers : SNIWrapperManager_instance(c)
    \/ \E c \in Callers : SNIWrapperManager_instance_lock(c)
    \/ \E c \in Callers : SNIWrapperManager_instance_create(c)
    \/ \E c \in Callers : SNIWrapperManager_instance_unlock(c)
    \/ \E c \in Callers : SNIWrapperManager_instance_return(c)
    \/ \E c \in Callers : SNIWrapperManager_shutdown(c)
    \/ \E c \in Callers : QtThreadManager_shutdown(c)
    \/ \E c \in Callers : QtThreadManager_shutdown_quit(c)
    \/ \E c \in Callers : QtThreadManager_shutdown_wait(c)

Spec == Init /\ [][Next]_vars

\* ---------------------------------------------------------------- the polling loop
\* the calls of a program that initialises the system, polls with sni_exec and stops the
\* loop from another thread, and the steps inside them.  The polling thread is
\* scheduled: it evaluates the loop condition again whenever it is back at it.
ExecNext ==
    \/ \E c \in Callers : call_runAsync(c)
    \/ \E c \in Callers : init_tray_system(c)
    \/ \E c \in Callers : init_tray_system_return(c)
    \/ \E c \in Callers : sni_exec(c)
    \/ \E c \in Callers : sni_exec_loop(c)
    \/ \E c \in Callers : sni_stop_exec(c)
    \/ \E c \in Callers : QtThreadManager_instance(c)
    \/ \E c \in Callers : QtThreadManager_instance_wait(c)
    \/ run_newApp
    \/ run_execQuit
    \/ run_exit
    \/ \E c \in Callers : runBlocking(c)
    \/ \E c \in Callers : runBlocking_return(c)
    \/ \E c \in Callers : runAsync(c)
    \/ \E c \in Callers : Dispatch(c)
    \/ \E c \in Callers : FnUser(c)
    \/ \E c \in Callers : FnThrow(c)
    \/ \E c \in Callers : FnCtor(c)
    \/ \E c \in Callers : FnPump(c)
    \/ \E c \in Callers : PumpAfter(c)
    \/ \E c \in Callers : PumpEnd(c)
    \/ \E c \in Callers : SNIWrapperManager_instance(c)
    \/ \E c \in Callers : SNIWrapperManager_instance_lock(c)
    \/ \E c \in Callers : SNIWrapperManager_instance_create(c)
    \/ \E c \in Callers : SNIWrapperManager_instance_unlock(c)
    \/ \E c \in Callers : SNIWrapperManager_instance_return(c)

ExecSpec == Init /\ [][ExecNext]_vars /\ \A c \in Callers : WF_vars(sni_exec_loop(c))

\* ================================================================ StatusNotifierItem
\* The methods of the item are functions of a record m: m.s the fields of the item,
\* m.o what has been sent so far by the running operation, m.conn the menus whose
\* destroyed() signal is connected to the item.  Each action below runs one whole
\* operation on the item's thread and commits the result.
Emit(m, name, arg) ==
    [m EXCEPT !.o = Append(@, [sig |-> name, arg |-> arg]),
              !.ev = Append(@, [sig |-> name, arg |-> arg])]

\* something an operation does that is not a message: it is kept in the log of the
\* operation only
Log(m, sig, arg) == [m EXCEPT !.ev = Append(@, [sig |-> sig, arg |-> arg])]

\* registerToHost(): asyncCall("RegisterStatusNotifierItem", baseService)
registerToHost(m) == Emit(m, "RegisterStatusNotifierItem", <<>>)

\* onServiceOwnerChanged that tests the old owner instead of the new one
onServiceOwnerChanged_testsOld(m, oldOwner, newOwner) ==
    IF oldOwner # "" THEN registerToHost(m) ELSE m

\* onServiceOwnerChanged(service, oldOwner, newOwner)
onServiceOwnerChanged(m, oldOwner, newOwner) ==
    IF newOwner # "" THEN registerToHost(m) ELSE m

\* setTitle without the comparison
setTitle_noCompare(m, title) == Emit([m EXCEPT !.s.mTitle = title], "NewTitle", <<>>)

setTitle(m, title) ==
    IF m.s.mTitle = title THEN m
    ELSE Emit([m EXCEPT !.s.mTitle = title], "NewTitle", <<>>)

setStatus(m, status) ==
    IF m.s.mStatus = status THEN m
    ELSE Emit([m EXCEPT !.s.mStatus = status], "NewStatus", <<status>>)

\* setMenuPath without the comparison
setMenuPath_noCompare(m, path) ==
    LET a == [m EXCEPT !.s.mMenuPath = path]
    IN Emit(a, "PropertiesChanged", <<"Menu", a.s.mMenuPath>>)

\* the PropertiesChanged message carries menu(), the path just stored
setMenuPath(m, path) ==
    IF m.s.mMenuPath = path THEN m
    ELSE LET a == [m EXCEPT !.s.mMenuPath = path]
         IN Emit(a, "PropertiesChanged", <<"Menu", a.s.mMenuPath>>)

\* setIconByName without mIcon.clear()
setIconByName_keepsPixmap(m, name) ==
    IF m.s.mIconName = name THEN m
    ELSE Emit([m EXCEPT !.s.mIconName = name, !.s.mIconCacheKey = 0], "NewIcon", <<>>)

setIconByName(m, name) ==
    IF m.s.mIconName = name THEN m
    ELSE Emit([m EXCEPT !.s.mIconName = name, !.s.mIcon = <<>>, !.s.mIconCacheKey = 0],
              "NewIcon", <<>>)

setIconByPixmap(m, icon) ==
    IF m.s.mIconCacheKey = icon.key THEN m
    ELSE Emit([m EXCEPT !.s.mIconCacheKey = icon.key, !.s.mIcon = iconToPixmapList(icon),
                        !.s.mIconName = ""],
              "NewIcon", <<>>)

setOverlayIconByName(m, name) ==
    IF m.s.mOverlayIconName = name THEN m
    ELSE Emit([m EXCEPT !.s.mOverlayIconName = name, !.s.mOverlayIcon = <<>>,
                        !.s.mOverlayIconCacheKey = 0],
              "NewOverlayIcon", <<>>)

setOverlayIconByPixmap(m, icon) ==
    IF m.s.mOverlayIconCacheKey = icon.key THEN m
    ELSE Emit([m EXCEPT !.s.mOverlayIconCacheKey = icon.key,
                        !.s.mOverlayIcon = iconToPixmapList(icon),
                        !.s.mOverlayIconName = ""],
              "NewOverlayIcon", <<>>)

setAttentionIconByName(m, name) ==
    IF m.s.mAttentionIconName = name THEN m
    ELSE Emit([m EXCEPT !.s.mAttentionIconName = name, !.s.mAttentionIcon = <<>>,
                        !.s.mAttentionIconCacheKey = 0],
              "NewAttentionIcon", <<>>)

setAttentionIconByPixmap(m, icon) ==
    IF m.s.mAttentionIconCacheKey = icon.key THEN m
    ELSE Emit([m EXCEPT !.s.mAttentionIconCacheKey = icon.key,
                        !.s.mAttentionIcon = iconToPixmapList(icon),
                        !.s.mAttentionIconName = ""],
              "NewAttentionIcon", <<>>)

setToolTipTitle(m, title) ==
    IF m.s.mTooltipTitle = title THEN m
    ELSE Emit([m EXCEPT !.s.mTooltipTitle = title], "NewToolTip", <<>>)

setToolTipSubTitle(m, subTitle) ==
    IF m.s.mTooltipSubtitle = subTitle THEN m
    ELSE Emit([m EXCEPT !.s.mTooltipSubtitle = subTitle], "NewToolTip", <<>>)

setToolTipIconByName(m, name) ==
    IF m.s.mTooltipIconName = name THEN m
    ELSE Emit([m EXCEPT !.s.mTooltipIconName = name, !.s.mTooltipIcon = <<>>,
                        !.s.mTooltipIconCacheKey = 0],
              "NewToolTip", <<>>)

setToolTipIconByPixmap(m, icon) ==
    IF m.s.mTooltipIconCacheKey = icon.key THEN m
    ELSE Emit([m EXCEPT !.s.mTooltipIconCacheKey = icon.key,
                        !.s.mTooltipIcon = iconToPixmapList(icon),
                        !.s.mTooltipIconName = ""],
              "NewToolTip", <<>>)

\* if (mMenuExporter) { delete mMenuExporter; mMenuExporter = nullptr; }
deleteExporter(m) ==
    IF m.s.mMenuExporter # NoMenu
    THEN Log([m EXCEPT !.s.mMenuExporter = NoMenu], "delete_exporter", m.s.mMenuExporter)
    ELSE m

\* mMenuExporter = new DBusMenuExporter{"/MenuBar", mMenu, mSessionBus}: the exporter
\* is bound to the menu it was created for
newExporter(m) == Log([m EXCEPT !.s.mMenuExporter = m.s.mMenu], "new_exporter", m.s.mMenu)

\* onMenuDestroyed(): slot of the menu's destroyed() signal
onMenuDestroyed(m) ==
    setMenuPath(deleteExporter([m EXCEPT !.s.mMenu = NoMenu]), noMenuPathForEnvironment)

\* setContextMenu that creates the new exporter before it deletes the old one
setContextMenu_createsFirst(m, menu) ==
    IF m.s.mMenu = menu THEN m
    ELSE LET old == m.s.mMenuExporter
             a == [m EXCEPT !.conn = IF m.s.mMenu # NoMenu THEN @ \ {m.s.mMenu} ELSE @,
                            !.s.mMenu = menu]
             b == IF menu # NoMenu
                  THEN newExporter([setMenuPath(a, MenuBarPath)
                                       EXCEPT !.conn = @ \cup {menu}])
                  ELSE setMenuPath(a, noMenuPathForEnvironment)
         IN IF old # NoMenu
            THEN Log([b EXCEPT !.s.mMenuExporter = IF menu # NoMenu THEN menu ELSE NoMenu],
                     "delete_exporter", old)
            ELSE b

\* setContextMenu(menu)
setContextMenu(m, menu) ==
    IF m.s.mMenu = menu THEN m
    ELSE LET a == [m EXCEPT !.conn = IF m.s.mMenu # NoMenu THEN @ \ {m.s.mMenu} ELSE @,
                            !.s.mMenu = menu]
             b == deleteExporter(a)
         IN IF menu # NoMenu
            THEN newExporter([setMenuPath(b, MenuBarPath) EXCEPT !.conn = @ \cup {menu}])
            ELSE setMenuPath(b, noMenuPathForEnvironment)

\* the C callbacks a caller registers, each with its user data, and the null callback
NullCallback == "null"
CallbackArgs == { [cb |-> "f", data |-> "d1"], [cb |-> "g", data |-> "d2"],
                  [cb |-> NullCallback, data |-> "d1"] }

\* a registration that connects the new lambda and leaves the old ones connected
connectCallback_keepsOld(s, cb, data) ==
    IF cb # NullCallback THEN Append(s, [cb |-> cb, data |-> data]) ELSE s

\* QObject::disconnect(sni, signal, nullptr, nullptr);
\* if (cb) QObject::connect(sni, signal, sni, [cb, data](...) { if (cb) cb(..., data); })
connectCallback(s, cb, data) ==
    IF cb # NullCallback THEN <<[cb |-> cb, data |-> data]>> ELSE <<>>

\* Q_EMIT of a signal with DirectConnection slots: every connected lambda runs, in the
\* order of connection, and calls its C callback with arg and its data
RECURSIVE CallSlots(_, _, _, _, _)
CallSlots(m, event, sig, arg, k) ==
    IF k > Len(slots[event]) THEN m
    ELSE CallSlots(Log(Emit(m, sig, arg), "callback",
                       <<slots[event][k].cb, arg, slots[event][k].data>>),
                   event, sig, arg, k + 1)

activateRequested(m, pos) ==
    CallSlots(Emit(m, "activateRequested", pos), "activate", "activate_cb", pos, 1)

secondaryActivateRequested(m, pos) ==
    CallSlots(Emit(m, "secondaryActivateRequested", pos), "secondary", "secondary_cb",
              pos, 1)

ClearAttention(m) ==
    IF m.s.mStatus = "NeedsAttention" THEN [m EXCEPT !.s.mStatus = "Active"] ELSE m

\* Activate that calls the callback before it announces the status
Activate_callbackFirst(m, pos) ==
    LET a == activateRequested(ClearAttention(m), pos)
    IN Emit(a, "NewStatus", <<a.s.mStatus>>)

Activate(m, pos) ==
    LET a == ClearAttention(m)
    IN activateRequested(Emit(a, "NewStatus", <<a.s.mStatus>>), pos)

SecondaryActivate(m, pos) ==
    LET a == ClearAttention(m)
    IN secondaryActivateRequested(Emit(a, "NewStatus", <<a.s.mStatus>>), pos)

\* forceUpdate that goes through the comparing setter for the status
forceUpdate_viaSetter(m) ==
    setStatus(Emit(Emit(m, "NewIcon", <<>>), "NewToolTip", <<>>), m.s.mStatus)

forceUpdate(m) ==
    LET a == Emit(m, "NewIcon", <<>>)
        b == Emit(a, "NewToolTip", <<>>)
    IN Emit(b, "NewStatus", <<b.s.mStatus>>)

\* the constructor body: setMenuPath(noMenuPathForEnvironment()); registerToHost();
\* then the watcher's serviceOwnerChanged is connected to onServiceOwnerChanged
StatusNotifierItem(m) == registerToHost(setMenuPath(m, noMenuPathForEnvironment))

\* the lambda of tray_update
trayUpdateLambda(m) ==
    LET currentIcon == m.s.mIconName
        currentTitle == m.s.mTitle
        currentTooltipTitle == m.s.mTooltipTitle
        currentStatus == m.s.mStatus
        a == IF currentIcon # ""
             THEN setIconByName(setIconByName(m, ""), currentIcon)
             ELSE m
        b == setTitle(setTitle(a, currentTitle \o " "), currentTitle)
        c == setToolTipTitle(setToolTipTitle(b, currentTooltipTitle \o " "),
                             currentTooltipTitle)
    IN setStatus(setStatus(c, "NeedsAttention"), currentStatus)

\* the lambda of set_icon_by_path
setIconByPathLambda(m, icon) == setIconByPixmap(setIconByName(m, ""), icon)

\* ---------------------------------------------------------------- item actions
\* the handle the caller holds points to a live item and the process runs
Usable == life = "alive" /\ fault = "none"

M0 == [s |-> sni, o |-> <<>>, conn |-> conn, ev |-> <<>>]

CommitOp(name, arg, m) ==
    /\ sni' = m.s
    /\ out' = m.o
    /\ conn' = m.conn
    /\ op' = [name |-> name, arg |-> arg]
    /\ statusBefore' = sni.mStatus
    /\ evs' = m.ev
    /\ prevMenu' = IF m.s.mMenu # sni.mMenu THEN sni.mMenu ELSE prevMenu
    /\ UNCHANGED <<byteOrder, pixmaps>>

\* ... by an operation that leaves the menus' actions and the submenu map alone
Commit(name, arg, m) == CommitOp(name, arg, m) /\ UNCHANGED treeVars

\* an operation on the constructed item that touches its properties only
PropertyOp ==
    /\ built
    /\ Usable
    /\ pending = "none"
    /\ nops < MaxOps
    /\ nops' = nops + 1
    /\ UNCHANGED <<built, menus, slots, kdeSession, watcherOwner, managerVars, apiVars>>

\* create_tray(id): trayCount++; new StatusNotifierItem(id, mgr)
create_tray ==
    /\ ~built
    /\ built' = TRUE
    /\ life' = "alive"
    /\ trayCount' = trayCount + 1
    /\ Commit("create_tray", <<>>, StatusNotifierItem(M0))
    /\ UNCHANGED <<menus, slots, kdeSession, watcherOwner, nops, managerVars, fault,
                   pending, timer, shutdownBy>>

\* set_title(handle, title): the lambda calls sni->setTitle(qtitle)
set_title ==
    /\ PropertyOp
    /\ \E title \in Titles : Commit("setTitle", title, setTitle(M0, title))

\* set_status(handle, status): any string is passed on to setStatus
set_status ==
    /\ PropertyOp
    /\ \E status \in StatusArgs : Commit("setStatus", status, setStatus(M0, status))

set_icon_by_name ==
    /\ PropertyOp
    /\ \E name \in IconNames : Commit("setIconByName", name, setIconByName(M0, name))

\* set_icon_by_path(handle, path): QIcon(qpath) is a new icon object each time, its
\* cache key is not the key of an icon built before; QIcon("") is the null icon, whose
\* cache key is 0
set_icon_by_path ==
    /\ PropertyOp
    /\ \E icon \in Icons :
        /\ icon = NullIcon \/ icon.key \notin {0, sni.mIconCacheKey}
        /\ Commit("set_icon_by_path", icon, setIconByPathLambda(M0, icon))

set_tooltip_title ==
    /\ PropertyOp
    /\ \E title \in TooltipTexts :
        Commit("setToolTipTitle", title, setToolTipTitle(M0, title))

set_tooltip_subtitle ==
    /\ PropertyOp
    /\ \E subTitle \in TooltipTexts :
        Commit("setToolTipSubTitle", subTitle, setToolTipSubTitle(M0, subTitle))

\* the setters that have no C entry point are called on the item directly
Call_setIconByPixmap ==
    /\ PropertyOp
    /\ \E icon \in Icons : Commit("setIconByPixmap", icon, setIconByPixmap(M0, icon))

Call_setOverlayIconByName ==
    /\ PropertyOp
    /\ \E name \in IconNames :
        Commit("setOverlayIconByName", name, setOverlayIconByName(M0, name))

Call_setOverlayIconByPixmap ==
    /\ PropertyOp
    /\ \E icon \in Icons :
        Commit("setOverlayIconByPixmap", icon, setOverlayIconByPixmap(M0, icon))

Call_setAttentionIconByName ==
    /\ PropertyOp
    /\ \E name \in IconNames :
        Commit("setAttentionIconByName", name, setAttentionIconByName(M0, name))

Call_setAttentionIconByPixmap ==
    /\ PropertyOp
    /\ \E icon \in Icons :
        Commit("setAttentionIconByPixmap", icon, setAttentionIconByPixmap(M0, icon))

Call_setToolTipIconByName ==
    /\ PropertyOp
    /\ \E name \in IconNames :
        Commit("setToolTipIconByName", name, setToolTipIconByName(M0, name))

Call_setToolTipIconByPixmap ==
    /\ PropertyOp
    /\ \E icon \in Icons :
        Commit("setToolTipIconByPixmap", icon, setToolTipIconByPixmap(M0, icon))

Call_forceUpdate ==
    /\ PropertyOp
    /\ Commit("forceUpdate", <<>>, forceUpdate(M0))

tray_update ==
    /\ PropertyOp
    /\ Commit("tray_update", <<>>, trayUpdateLambda(M0))

\* the host calls Activate(x, y) / SecondaryActivate(x, y) over the bus
Bus_Activate ==
    /\ PropertyOp
    /\ \E pos \in Coords : Commit("Activate", pos, Activate(M0, pos))

Bus_SecondaryActivate ==
    /\ PropertyOp
    /\ \E pos \in Coords : Commit("SecondaryActivate", pos, SecondaryActivate(M0, pos))

\* set_activate_callback(handle, cb, data): disconnect everything from
\* activateRequested, then connect the lambda that calls cb unless cb is null
set_activate_callback ==
    /\ built
    /\ Usable
    /\ pending = "none"
    /\ \E reg \in CallbackArgs :
        /\ slots' = [slots EXCEPT !["activate"] = connectCallback(@, reg.cb, reg.data)]
        /\ slots' # slots
        /\ Commit("set_activate_callback", reg, M0)
    /\ UNCHANGED <<built, menus, kdeSession, watcherOwner, nops, managerVars, apiVars>>

set_secondary_activate_callback ==
    /\ built
    /\ Usable
    /\ pending = "none"
    /\ \E reg \in CallbackArgs :
        /\ slots' = [slots EXCEPT !["secondary"] = connectCallback(@, reg.cb, reg.data)]
        /\ slots' # slots
        /\ Commit("set_secondary_activate_callback", reg, M0)
    /\ UNCHANGED <<built, menus, kdeSession, watcherOwner, nops, managerVars, apiVars>>

ItemNext ==
    \/ create_tray
    \/ set_title
    \/ set_status
    \/ set_icon_by_name
    \/ set_icon_by_path
    \/ set_tooltip_title
    \/ set_tooltip_subtitle
    \/ Call_setIconByPixmap
    \/ Call_setOverlayIconByName
    \/ Call_setOverlayIconByPixmap
    \/ Call_setAttentionIconByName
    \/ Call_setAttentionIconByPixmap
    \/ Call_setToolTipIconByName
    \/ Call_setToolTipIconByPixmap
    \/ Call_forceUpdate
    \/ tray_update
    \/ Bus_Activate
    \/ Bus_SecondaryActivate
    \/ set_activate_callback
    \/ set_secondary_activate_callback

\* the item alone: its properties, the inbound calls of the host and the callbacks
ItemSpecInit ==
    /\ ManagerInit
    /\ ItemInit
    /\ byteOrder = "LittleEndian"
    /\ kdeSession \in BOOLEAN
    /\ watcherOwner = ""

ItemSpec == ItemSpecInit /\ [][ItemNext]_vars

\* ---------------------------------------------------------------- menu and watcher actions
\* an operation that leaves the properties, the callbacks and the watcher alone
MenuFrame ==
    /\ fault = "none"
    /\ UNCHANGED <<built, slots, kdeSession, watcherOwner, nops, managerVars,
                   life, trayCount, pending, timer, shutdownBy>>
MenuOp == MenuFrame /\ UNCHANGED fault

\* the item points to a menu that has been destroyed behind its back
DanglingMenu == sni.mMenu # NoMenu /\ menus[sni.mMenu] = "destroyed"

\* create_menu(): new QMenu()
create_menu ==
    /\ \E menu \in Menus :
        /\ menus[menu] = "none"
        /\ menus' = [menus EXCEPT ![menu] = "alive"]
        /\ Commit("create_menu", menu, M0)
    /\ MenuOp

\* set_context_menu(handle, menu_handle): sni->setContextMenu(menu), then the event
\* loop is spun (processEvents, and a 50 ms local loop when the menu is null).
\* When the stored menu has been destroyed, disconnect(mMenu, ...) and
\* delete mMenuExporter work on destroyed objects: the process ends there or goes on.
set_context_menu ==
    /\ built
    /\ \E menu \in Menus \cup {NoMenu} :
        /\ menu # NoMenu => menus[menu] = "alive"
        /\ IF DanglingMenu /\ menu # sni.mMenu
           THEN \E outcome \in {"crashed", "none"} :
                   /\ fault' = outcome
                   /\ IF outcome = "crashed"
                      THEN Commit("crashed", menu, M0)
                      ELSE Commit("setContextMenu", menu, setContextMenu(M0, menu))
           ELSE /\ Commit("setContextMenu", menu, setContextMenu(M0, menu))
                /\ UNCHANGED fault
    /\ UNCHANGED menus
    /\ MenuFrame

\* ~QObject of a menu emits destroyed(), which runs the slots still connected to it
\* ~QObject deletes the children: the menus below a set of menus, themselves included
RECURSIVE Family(_)
Family(S) ==
    LET T == S \cup {x \in Menus : parentOf[x] \in S}
    IN IF T = S THEN S ELSE Family(T)

\* ... and a destroyed QAction leaves the widgets that show it.  Nothing removes an
\* entry of submenuToAction.
DestroyMenu(menu) ==
    LET gone == Family({menu})
        m == IF gone \cap conn # {} THEN onMenuDestroyed(M0) ELSE M0
    IN /\ menus' = [x \in Menus |-> IF x \in gone THEN "destroyed" ELSE menus[x]]
       /\ actions' = [x \in Menus |-> IF x \in gone THEN {}
                                      ELSE actions[x] \ {menuAction(g) : g \in gone}]
       /\ UNCHANGED <<submenuToAction, parentOf>>
       /\ CommitOp("menu_destroyed", menu, [m EXCEPT !.conn = @ \ gone])

\* the owner of a menu deletes it directly (delete menu), without detaching it first
delete_menu ==
    /\ \E menu \in Menus :
        /\ menus[menu] = "alive"
        /\ DestroyMenu(menu)
    /\ MenuOp

\* destroy_menu(menu_handle): menu->disconnect() drops every connection made to the
\* menu's signals, destroyed() included; menu->clear(); menu->deleteLater()
destroy_menu ==
    /\ \E menu \in Menus :
        /\ menus[menu] = "alive"
        /\ menus' = [menus EXCEPT ![menu] = "deleting"]
        /\ actions' = [actions EXCEPT ![menu] = {}]
        /\ UNCHANGED <<submenuToAction, parentOf>>
        /\ CommitOp("destroy_menu", menu, [M0 EXCEPT !.conn = @ \ {menu}])
    /\ MenuOp

\* the event loop delivers the DeferredDelete event of a menu
DeferredDelete ==
    /\ \E menu \in Menus :
        /\ menus[menu] = "deleting"
        /\ DestroyMenu(menu)
    /\ MenuOp

\* the owner of org.kde.StatusNotifierWatcher changes; the QDBusServiceWatcher the
\* constructor made delivers serviceOwnerChanged to an item that exists
ServiceOwnerChanged ==
    /\ fault = "none"
    /\ \E newOwner \in BusNames :
        /\ newOwner # watcherOwner
        /\ watcherOwner' = newOwner
        /\ Commit("onServiceOwnerChanged", <<watcherOwner, newOwner>>,
                  IF built THEN onServiceOwnerChanged(M0, watcherOwner, newOwner) ELSE M0)
    /\ UNCHANGED <<built, menus, slots, kdeSession, nops, managerVars, apiVars>>

MenuNext ==
    \/ create_tray
    \/ create_menu
    \/ set_context_menu
    \/ delete_menu
    \/ destroy_menu
    \/ DeferredDelete
    \/ ServiceOwnerChanged

MenuSpecInit ==
    /\ ManagerInit
    /\ ItemInit
    /\ byteOrder = "LittleEndian"
    /\ kdeSession \in BOOLEAN
    /\ watcherOwner \in BusNames

\* the item, the menus it is given and the watcher it registers with
MenuSpec == MenuSpecInit /\ [][MenuNext]_vars

\* ---------------------------------------------------------------- calls on a tray handle
\* the handles a caller passes: nullptr, or the pointer create_tray returned (which the
\* caller keeps after destroy_handle)
NullHandle == "null"
TrayHandle == "tray"
Handles == {NullHandle, TrayHandle}

\* the thread of the C caller and the thread the item lives in (its slots and the
\* callbacks connected with Qt::DirectConnection run there)
CallerThread == "caller"
ItemThread == "item"

\* every manager variable but g_shuttingDown
teardownFrame == <<pc, stk, fnArg, waitId, disp, got, loopAlive, calls, inst, creator, thr,
                   opc, m_app, exited, queue, work, started, counter, s_instance,
                   mgrThread, mgrApp, mutex, hist, sni_running>>

\* a call from the caller's side: it waits its turn on the item's thread
ApiCall ==
    /\ fault = "none"
    /\ pending = "none"
    /\ nops < MaxOps
    /\ nops' = nops + 1
    /\ UNCHANGED <<built, kdeSession, watcherOwner, managerVars>>
ApiOp == ApiCall /\ UNCHANGED menus

\* if (!handle) return; sni = static_cast<StatusNotifierItem *>(handle);
\* invokeMethod(sni, lambda, safeConn(sni)): nothing tells a live item from one that
\* destroy_handle has been called on.  m is what the lambda makes of the item.  Behind
\* the handle there is the live item, the item whose deleteLater() is pending, or freed
\* memory; using freed memory is undefined: the process crashes or goes on unharmed.
OnHandle(handle, name, arg, m) ==
    /\ handle = TrayHandle => life # "none"
    /\ IF handle = NullHandle
       THEN /\ Commit(name, [handle |-> handle, val |-> arg, deref |-> FALSE], M0)
            /\ UNCHANGED fault
       ELSE IF life = "destroyed"
       THEN /\ Commit(name, [handle |-> handle, val |-> arg, deref |-> TRUE], M0)
            /\ \E outcome \in {"crashed", "none"} : fault' = outcome
       ELSE /\ Commit(name, [handle |-> handle, val |-> arg, deref |-> TRUE], m)
            /\ UNCHANGED fault

\* set_title(handle, title)
set_title_handle ==
    /\ ApiOp
    /\ \E handle \in Handles, title \in Titles :
        OnHandle(handle, "set_title", title, setTitle(M0, title))
    /\ UNCHANGED <<slots, life, trayCount, pending, timer, shutdownBy>>

\* StatusNotifierItem::unregister()
unregister(m) == Emit(Emit(m, "unregisterObject", <<>>), "disconnectFromBus", <<>>)

\* SNIWrapperManager::destroySNI(sni): sni->unregister(); sni->deleteLater()
destroySNI(m) == unregister(m)

\* the rest of destroy_handle, run by thread t: the lambda has called destroySNI;
\* trayCount--; if (trayCount <= 0) QTimer::singleShot(100, shutdown_tray_system).
\* The timer belongs to the thread that called singleShot.
DestroyHandleTail(t) ==
    /\ life' = IF life = "alive" THEN "deleting" ELSE life
    /\ trayCount' = trayCount - 1
    /\ timer' = IF trayCount - 1 <= 0 THEN timer \cup {t} ELSE timer

\* destroy_handle(handle) called by the caller's thread
destroy_handle ==
    /\ ApiOp
    /\ \E handle \in Handles :
        /\ OnHandle(handle, "destroy_handle", <<>>, destroySNI(M0))
        /\ IF handle = NullHandle
           THEN UNCHANGED <<life, trayCount, timer>>
           ELSE DestroyHandleTail(CallerThread)
    /\ UNCHANGED <<slots, pending, shutdownBy>>

\* destroy_handle(handle) with the handle of a menu, as the example program calls it
\* (destroy_handle(submenu); destroy_handle(menu); destroy_handle(tray)): the handle is
\* cast to StatusNotifierItem *, destroySNI calls unregister() on the QMenu, which is
\* undefined (the process ends there or goes on), then deleteLater(); trayCount--
\* follows as for an item.
MenuHandle == "menu"
destroy_handle_menu ==
    /\ ApiCall
    /\ \E menu \in Menus, outcome \in {"crashed", "none"} :
        /\ menus[menu] = "alive"
        /\ fault' = outcome
        /\ Commit("destroy_handle", [handle |-> MenuHandle, val |-> menu, deref |-> TRUE], M0)
        /\ IF outcome = "crashed"
           THEN UNCHANGED <<menus, trayCount, timer>>
           ELSE /\ menus' = [menus EXCEPT ![menu] = "deleting"]
                /\ trayCount' = trayCount - 1
                /\ timer' = IF trayCount - 1 <= 0 THEN timer \cup {CallerThread} ELSE timer
    /\ UNCHANGED <<slots, life, pending, shutdownBy>>

\* the host calls Activate and the registered activation callback calls
\* destroy_handle(handle) on the item it was called for: the callback runs on the
\* item's thread, safeConn picks Qt::DirectConnection
callback_destroy_handle ==
    /\ ApiOp
    /\ Usable
    /\ "activate" \in cbs
    /\ \E pos \in Coords :
        Commit("callback_destroy_handle", pos, destroySNI(Activate(M0, pos)))
    /\ DestroyHandleTail(ItemThread)
    /\ UNCHANGED <<slots, fault, pending, shutdownBy>>

\* the event loop of the item's thread delivers the DeferredDelete event:
\* ~StatusNotifierItem() unregisters once more and the connections of the item go
DeferredDeleteItem ==
    /\ fault = "none"
    /\ pending = "none"
    /\ life = "deleting"
    /\ life' = "destroyed"
    /\ slots' = [e \in CallbackEvents |-> <<>>]
    /\ Commit("item_deleted", <<>>, unregister(M0))
    /\ UNCHANGED <<built, menus, kdeSession, watcherOwner, nops, managerVars, trayCount,
                   fault, pending, timer, shutdownBy>>

\* the single-shot timer of destroy_handle fires in the event loop of the thread that
\* started it and runs shutdown_tray_system() there: the compare_exchange on
\* g_shuttingDown lets the first one through
ShutdownTimer ==
    /\ fault = "none"
    /\ pending = "none"
    /\ \E t \in timer :
        /\ timer' = timer \ {t}
        /\ IF g_shuttingDown
           THEN UNCHANGED <<g_shuttingDown, shutdownBy>>
           ELSE /\ g_shuttingDown' = TRUE
                /\ shutdownBy' = shutdownBy \cup {t}
        /\ Commit("shutdown_timer", t, M0)
    /\ UNCHANGED <<built, menus, slots, kdeSession, watcherOwner, nops, teardownFrame,
                   life, trayCount, fault, pending>>

\* ---------------------------------------------------------------- scroll
\* orientation strings, as the sequences of their character codes
Str_horizontal == <<104, 111, 114, 105, 122, 111, 110, 116, 97, 108>>
Orientations ==
    { Str_horizontal,
      <<72, 111, 114, 105, 122, 111, 110, 116, 97, 108>>,       \* "Horizontal"
      <<72, 79, 82, 73, 90, 79, 78, 84, 65, 76>>,               \* "HORIZONTAL"
      <<104, 111, 114, 105, 122, 111, 110, 116, 97, 108, 32>>,  \* "horizontal "
      <<104, 111, 114, 105, 122>>,                              \* "horiz"
      <<118, 101, 114, 116, 105, 99, 97, 108>>,                 \* "vertical"
      <<>> }                                                    \* ""
Deltas == {-120, 120}

\* QString::toLower that leaves the string as it is
toLower_asIs(str) == str

\* QString::toLower() on the letters A..Z
toLower(str) == [i \in 1..Len(str) |-> IF str[i] \in 65..90 THEN str[i] + 32 ELSE str[i]]

\* the lambda set_scroll_callback connects to scrollRequested (DirectConnection):
\* cb(delta, orientation == Qt::Horizontal ? 1 : 0, data)
scrollRequested(m, delta, orient) ==
    CallSlots(Emit(m, "scrollRequested", <<delta, orient>>), "scroll", "scroll_cb",
              <<delta, IF orient = "Horizontal" THEN 1 ELSE 0>>, 1)

\* Scroll(delta, orientation)
Scroll(m, delta, orientation) ==
    LET orient == IF toLower(orientation) = Str_horizontal THEN "Horizontal"
                                                           ELSE "Vertical"
    IN scrollRequested(m, delta, orient)

\* the host calls Scroll(delta, orientation) over the bus
Bus_Scroll ==
    /\ ApiOp
    /\ Usable
    /\ \E delta \in Deltas, orientation \in Orientations :
        Commit("Scroll", <<delta, orientation>>, Scroll(M0, delta, orientation))
    /\ UNCHANGED <<slots, apiVars>>

\* set_scroll_callback(handle, cb, data): disconnect everything from scrollRequested,
\* then connect the lambda that calls cb unless cb is null
set_scroll_callback ==
    /\ built
    /\ Usable
    /\ pending = "none"
    /\ \E reg \in CallbackArgs :
        /\ slots' = [slots EXCEPT !["scroll"] = connectCallback(@, reg.cb, reg.data)]
        /\ slots' # slots
        /\ Commit("set_scroll_callback", reg, M0)
    /\ UNCHANGED <<built, menus, kdeSession, watcherOwner, nops, managerVars, apiVars>>

\* ---------------------------------------------------------------- notifications
NotifyTexts == {"", "hello"}
Secs == {0, 5}

\* showMessage(title, msg, iconName, secs): QDBusInterface::call("Notify", mTitle, 0,
\* iconName, title, msg, QStringList(), QVariantMap(), secs) sends the message and
\* waits for its reply
showMessage(m, title, msg, iconName, secs) ==
    Emit(m, "Notify", <<m.s.mTitle, 0, iconName, title, msg, secs>>)

\* show_notification(handle, title, msg, iconName, secs): the lambda calls
\* sni->showMessage(qtitle, qmsg, qiconName, secs * 1000); the item's thread is inside
\* QDBusInterface::call until NotifyReply
show_notification ==
    /\ ApiOp
    /\ \E handle \in Handles, title \in NotifyTexts, secs \in Secs :
        /\ OnHandle(handle, "show_notification", <<title, secs>>,
                    showMessage(M0, title, "", "", secs * 1000))
        /\ pending' = IF handle # NullHandle /\ life # "destroyed" THEN "Notify" ELSE pending
    /\ UNCHANGED <<slots, life, trayCount, timer, shutdownBy>>

\* the reply of the notification service arrives, or an error, or the call times out;
\* call() returns and showMessage drops what it returned
NotifyReply ==
    /\ fault = "none"
    /\ pending = "Notify"
    /\ pending' = "none"
    /\ \E reply \in {"id", "error", "timeout"} : Commit("Notify_reply", reply, M0)
    /\ UNCHANGED <<built, menus, slots, kdeSession, watcherOwner, nops, managerVars, life,
                   trayCount, fault, timer, shutdownBy>>

ApiNext ==
    \/ create_tray
    \/ Bus_Activate
    \/ set_secondary_activate_callback
    \/ Bus_SecondaryActivate
    \/ set_title_handle
    \/ destroy_handle
    \/ set_activate_callback
    \/ callback_destroy_handle
    \/ DeferredDeleteItem
    \/ ShutdownTimer
    \/ set_scroll_callback
    \/ Bus_Scroll
    \/ show_notification
    \/ NotifyReply

ApiSpecInit ==
    /\ ManagerInit
    /\ ItemInit
    /\ byteOrder = "LittleEndian"
    /\ kdeSession \in BOOLEAN
    /\ watcherOwner = ""

\* the C entry points on a tray handle over the life of the item, and the inbound
\* Scroll call
ApiSpec == ApiSpecInit /\ [][ApiNext]_vars

\* ---------------------------------------------------------------- submenus
\* create_submenu(menu_handle, text): subMenu = parentMenu->addMenu(qtext) makes the
\* submenu a child of the parent and adds its menuAction() to the parent; the loop over
\* parentMenu->actions() stores the action whose menu() is the submenu
create_submenu ==
    /\ \E parent, sub \in Menus :
        /\ menus[parent] = "alive" /\ menus[sub] = "none"
        /\ menus' = [menus EXCEPT ![sub] = "alive"]
        /\ parentOf' = [parentOf EXCEPT ![sub] = parent]
        /\ actions' = [actions EXCEPT ![parent] = @ \cup {menuAction(sub)}]
        /\ LET found == {a \in actions'[parent] : menuOf(a) = sub}
           IN submenuToAction' = IF found = {} THEN submenuToAction
                                 ELSE [submenuToAction EXCEPT ![sub] = CHOOSE a \in found : TRUE]
        /\ CommitOp("create_submenu", <<parent, sub>>, M0)
    /\ MenuOp

\* set_submenu_icon(submenu_handle, icon): action = submenuToAction.value(submenu,
\* nullptr); if (action) action->setIcon(ico)
set_submenu_icon ==
    /\ \E submenu \in Menus :
        /\ menus[submenu] = "alive"
        /\ LET action == submenuToAction[submenu]
           IN Commit("set_submenu_icon",
                     [submenu |-> submenu, action |-> action,
                      live |-> action # NoAction /\ menus[menuOf(action)] # "destroyed"], M0)
    /\ UNCHANGED menus
    /\ MenuOp

\* add_menu_action(menu_handle, text, cb, data): menu->addAction(qtext)
add_menu_action ==
    /\ \E menu \in Menus :
        /\ menus[menu] = "alive"
        /\ ItemAction \notin actions[menu]
        /\ actions' = [actions EXCEPT ![menu] = @ \cup {ItemAction}]
        /\ CommitOp("add_menu_action", menu, M0)
    /\ UNCHANGED <<menus, submenuToAction, parentOf>>
    /\ MenuOp

\* remove_menu_item(menu_handle, item): menu->removeAction(action); action->deleteLater()
remove_menu_item ==
    /\ \E menu \in Menus :
        /\ menus[menu] = "alive"
        /\ ItemAction \in actions[menu]
        /\ actions' = [actions EXCEPT ![menu] = @ \ {ItemAction}]
        /\ CommitOp("remove_menu_item", menu, M0)
    /\ UNCHANGED <<menus, submenuToAction, parentOf>>
    /\ MenuOp

\* clear_menu(menu_handle): every action is disconnected and menu->clear() removes the
\* actions; it deletes those the menu owns, which the menuAction() of a submenu is not
clear_menu_handle ==
    /\ \E menu \in Menus :
        /\ menus[menu] = "alive"
        /\ actions' = [actions EXCEPT ![menu] = {}]
        /\ CommitOp("clear_menu", menu, M0)
    /\ UNCHANGED <<menus, submenuToAction, parentOf>>
    /\ MenuOp

SubmenuNext ==
    \/ create_menu
    \/ create_submenu
    \/ set_submenu_icon
    \/ add_menu_action
    \/ remove_menu_item
    \/ clear_menu_handle
    \/ destroy_menu
    \/ DeferredDelete

SubmenuSpecInit ==
    /\ ManagerInit
    /\ ItemInit
    /\ byteOrder = "LittleEndian"
    /\ kdeSession = FALSE
    /\ watcherOwner = ""

\* the menus, their submenus and items, and the submenu map
SubmenuSpec == SubmenuSpecInit /\ [][SubmenuNext]_vars

\* ---------------------------------------------------------------- handles and the counter
\* the calls that create and destroy handles, as the example program makes them, and
\* what the event loop does afterwards
HandleNext ==
    \/ create_tray
    \/ create_menu
    \/ set_title_handle
    \/ destroy_handle
    \/ destroy_handle_menu
    \/ DeferredDeleteItem
    \/ ShutdownTimer

HandleSpecInit ==
    /\ ManagerInit
    /\ ItemInit
    /\ byteOrder = "LittleEndian"
    /\ kdeSession \in BOOLEAN
    /\ watcherOwner = ""

HandleSpec == HandleSpecInit /\ [][HandleNext]_vars

\* ---------------------------------------------------------------- the pixmap encoder
\* iconToPixmapList is a static function: it is applied here to every icon of a bounded
\* set, on a host of either byte order.
MaxPixels == 4
Formats == {"ARGB32", "ARGB32_Premultiplied", "RGB32"}
Images ==
    UNION { { [format |-> f, width |-> d[1], height |-> d[2], pixels |-> p] :
                f \in Formats, p \in [1..(d[1] * d[2]) -> PixelWords] } :
            d \in {e \in (1..MaxPixels) \X (1..MaxPixels) : e[1] * e[2] <= MaxPixels} }
EncoderIcons ==
    {NullIcon, MissingFileIcon}
        \cup {BitmapIcon(1, img) : img \in Images}
        \cup {FillIcon(1, f, c) : f \in Formats, c \in PixelWords}

Call_iconToPixmapList ==
    /\ op = NoOp
    /\ \E icon \in EncoderIcons :
          /\ pixmaps' = iconToPixmapList(icon)
          /\ op' = [name |-> "iconToPixmapList", arg |-> icon]
    /\ UNCHANGED <<sni, built, out, menus, conn, slots, kdeSession, watcherOwner, nops,
                   statusBefore, apiVars, evs, byteOrder, prevMenu, treeVars, managerVars>>

EncoderSpecInit ==
    /\ ManagerInit
    /\ ItemInit
    /\ byteOrder \in {"LittleEndian", "BigEndian"}
    /\ kdeSession = FALSE
    /\ watcherOwner = ""

EncoderSpec == EncoderSpecInit /\ [][Call_iconToPixmapList]_vars

\* ---------------------------------------------------------------- properties
Ids == 1..Len(work)
HasStarted(i) == \E k \in 1..Len(started) : started[k] = i
StartPos(i) == CHOOSE k \in 1..Len(started) : started[k] = i

\* C1: a runBlocking call made from a thread other than the owner thread has returned
\* only if its function was executed to its end, and executed on the owner thread.
C1_ReturnsAfterRunOnOwner ==
    \A i \in Ids :
        (work[i].blocking /\ work[i].returned)
            => (work[i].st \in {"done", "threw"} /\ work[i].on = Owner)

\* C2: every submitted unit of work, and every construction or deletion of the manager,
\* executes on the owner thread (the thread that runs QtThreadManager::run), never on
\* the thread that created the QtThreadManager object or on another caller thread.
C2_WorkOnlyOnOwner ==
    /\ \A i \in Ids : work[i].on \in {NoThread, Owner}
    /\ hist.ctorOn \cup hist.dtorOn \subseteq {Owner}

\* C3: the first QtThreadManager::instance() call returns while the owner thread's loop
\* is running, and the owner thread is started at most once.
C3_InstanceReturnsWhileLoopRuns ==
    /\ hist.firstReturn \in {"pending", "running"}
    /\ hist.starts <= 1

\* C4: runBlocking called by code that is already executing a submitted unit of work
\* runs its function inline: such a thread never waits for a queued call.
C4_ReentrantRunsInline ==
    \A c \in Callers : ~(pc[c] = "rb_wait" /\ disp[c] # <<>>)

\* C5: submissions are served in submission order on the owner thread: when the function
\* of a later submission has started, the function of every earlier submission has
\* started before it, both on the owner thread.
C5_FifoOnOwner ==
    \A i, j \in Ids :
        (i < j /\ HasStarted(j))
            => /\ HasStarted(i)
               /\ StartPos(i) < StartPos(j)
               /\ work[i].on = Owner /\ work[j].on = Owner

\* C6: over any number of shutdown_tray_system / QtThreadManager::shutdown calls the
\* teardown is performed at most once (one manager deletion, one quit request, one
\* join) and no call touches a null application object or an already finished thread.
C6_SingleTeardown ==
    /\ hist.quitReqs <= 1
    /\ hist.joins <= 1
    /\ ~hist.nullAppQuit
    /\ ~hist.deadJoin

\* C7: the manager is constructed on the owner thread only, and never while another
\* manager object is alive.
C7_ManagerBuiltOnOwnerOnce ==
    /\ hist.ctorOn \subseteq {Owner}
    /\ ~hist.doubleCtor

\* C8: the manager is deleted on the owner thread, while the owner thread's loop has not
\* yet been stopped (manager before loop).
C8_ManagerBeforeLoop ==
    /\ hist.dtorOn \subseteq {Owner}
    /\ hist.dtorThr \subseteq {"running"}

\* C9: when a shutdown call returns from joining the owner thread, every unit of work
\* that was submitted and unfinished when that shutdown was requested has been executed,
\* and no runBlocking call has returned while its function was still waiting to run.
C9_ShutdownDrains ==
    /\ hist.lostAtJoin = {}
    /\ \A i \in Ids : work[i].returned => work[i].st # "queued"

\* C10: a unit of work that throws does not end the event loop that serves the
\* submissions, and a runBlocking caller whose function threw does not return normally
\* (the exception is reported to it).
C10_ThrowIsContained ==
    /\ \A c \in Callers : loopAlive[c]
    /\ hist.silentThrow = {}

\* C22: init_tray_system returns 0 only when the manager was constructed: when the
\* constructor fails, the failure raised on the thread that runs it reaches the calling
\* thread and the call does not return 0.
C22_InitReportsFailure == ~hist.initOkAfterThrow

\* C23: sni_exec survives an exception raised during event processing: such an
\* exception does not end the process while a thread is inside sni_exec, and sni_exec
\* returns only after sni_stop_exec has been called.
C23_ExecSurvives == ~hist.execKilled /\ ~hist.execEarly

\* C28: units of work run to completion one at a time: while the function of one
\* submitted unit of work is executing, no other unit of work starts executing, not
\* even inside the processEvents that sni_process_events runs from its unit of work.
C28_RunToCompletion == \A c \in Callers : Len(disp[c]) <= 1

\* ---------------------------------------------------------------- item properties
NameSetters == {"setTitle", "setStatus", "setIconByName", "setOverlayIconByName",
                "setAttentionIconByName", "setToolTipIconByName", "setToolTipTitle",
                "setToolTipSubTitle"}
PixmapSetters == {"setIconByPixmap", "setOverlayIconByPixmap", "setAttentionIconByPixmap",
                  "setToolTipIconByPixmap"}
Setters == NameSetters \cup PixmapSetters

\* the value of the property a setter sets, as the item s stores it
StoredValue(s, setter) ==
    CASE setter = "setTitle" -> s.mTitle
      [] setter = "setStatus" -> s.mStatus
      [] setter = "setIconByName" -> s.mIconName
      [] setter = "setOverlayIconByName" -> s.mOverlayIconName
      [] setter = "setAttentionIconByName" -> s.mAttentionIconName
      [] setter = "setToolTipIconByName" -> s.mTooltipIconName
      [] setter = "setToolTipTitle" -> s.mTooltipTitle
      [] setter = "setToolTipSubTitle" -> s.mTooltipSubtitle
      [] setter = "setIconByPixmap" -> s.mIcon
      [] setter = "setOverlayIconByPixmap" -> s.mOverlayIcon
      [] setter = "setAttentionIconByPixmap" -> s.mAttentionIcon
      [] setter = "setToolTipIconByPixmap" -> s.mTooltipIcon

\* the value a setter call asks to store
ArgValue(setter, arg) == IF setter \in PixmapSetters THEN iconToPixmapList(arg) ELSE arg

\* C11: a setter call whose value equals the value the item stores changes no field of
\* the item and sends nothing, and a setter call that repeats the call made just before
\* it (same setter, same argument) sends nothing.
C11_EqualValueIsNoOp ==
    [][ op'.name \in Setters =>
            /\ ArgValue(op'.name, op'.arg) = StoredValue(sni, op'.name)
                   => (sni' = sni /\ out' = <<>>)
            /\ (op.name = op'.name /\ op.arg = op'.arg) => out' = <<>> ]_vars

\* new DBusMenuExporter{path, mMenu, bus} makes the exporter a child object of the menu
\* (libdbusmenu-qt: "the instance adds itself to the menu children"): the object the
\* item points to exists until it is deleted by the item or destroyed with its menu.
BridgeExists == sni.mMenuExporter # NoMenu /\ menus[sni.mMenuExporter] # "destroyed"

\* C12: the item's menu path is the attached path "/MenuBar" exactly when the stored
\* menu reference is not null, and the export bridge exists exactly when the stored
\* menu reference is not null, after any setContextMenu calls and menu destructions.
C12_PathAndBridgeIffMenu ==
    /\ sni.mMenuPath = MenuBarPath <=> sni.mMenu # NoMenu
    /\ BridgeExists <=> sni.mMenu # NoMenu

\* C13: the item never refers to a destroyed menu: once a menu has been destroyed,
\* however that happened (delete, or destroy_menu), neither the stored menu reference
\* nor the export bridge of the item is that menu's, and an item without a menu
\* reference announces the no-menu path.
C13_NoDestroyedMenuHeld ==
    /\ \A menu \in Menus :
           menus[menu] = "destroyed" => (sni.mMenu # menu /\ sni.mMenuExporter # menu)
    /\ (built /\ sni.mMenu = NoMenu) => sni.mMenuPath = noMenuPathForEnvironment

\* the operation just performed stored a new value (a setter emits exactly then)
Stored == Len(out) > 0

\* C14: in each of the four icon slots at most one of the name and the pixmap list is
\* non-empty; a by-name setter that has just stored a name left the slot's pixmap list
\* empty and a by-pixmap setter that has just stored pixmaps left the slot's name empty.
C14_NameOrPixmap ==
    /\ sni.mIconName = "" \/ sni.mIcon = <<>>
    /\ sni.mOverlayIconName = "" \/ sni.mOverlayIcon = <<>>
    /\ sni.mAttentionIconName = "" \/ sni.mAttentionIcon = <<>>
    /\ sni.mTooltipIconName = "" \/ sni.mTooltipIcon = <<>>
    /\ (op.name = "setIconByName" /\ Stored) => sni.mIcon = <<>>
    /\ (op.name = "setOverlayIconByName" /\ Stored) => sni.mOverlayIcon = <<>>
    /\ (op.name = "setAttentionIconByName" /\ Stored) => sni.mAttentionIcon = <<>>
    /\ (op.name = "setToolTipIconByName" /\ Stored) => sni.mTooltipIcon = <<>>
    /\ (op.name = "setIconByPixmap" /\ Stored) => sni.mIconName = ""
    /\ (op.name = "setOverlayIconByPixmap" /\ Stored) => sni.mOverlayIconName = ""
    /\ (op.name = "setAttentionIconByPixmap" /\ Stored) => sni.mAttentionIconName = ""
    /\ (op.name = "setToolTipIconByPixmap" /\ Stored) => sni.mTooltipIconName = ""

\* the by-name setter of the primary slot has just stored a name while the overlay and
\* tooltip slots hold pixmaps
C14_Witness ==
    /\ op.name = "setIconByName" /\ Stored
    /\ sni.mIconName # ""
    /\ sni.mOverlayIcon # <<>>
    /\ sni.mTooltipIcon # <<>>

\* positions in the sequence sent by an operation that hold the signal `name`
Sent(seq, name) == {k \in 1..Len(seq) : seq[k].sig = name}

\* the callback an inbound call leads to, if it is registered
CallbackOf(call) == IF call = "Activate" THEN "activate_cb" ELSE "secondary_cb"
Registered(call) == IF call = "Activate" THEN "activate" \in cbs ELSE "secondary" \in cbs

\* C15: after Activate(x, y) or SecondaryActivate(x, y) the status is Active if it was
\* NeedsAttention and is what it was otherwise; the status notification, carrying that
\* status, was sent first; the registered callback of that call was invoked after it,
\* once, with exactly (x, y), and the callback of the other call was not invoked.
C15_StatusThenCallback ==
    op.name \in {"Activate", "SecondaryActivate"} =>
        /\ sni.mStatus = IF statusBefore = "NeedsAttention" THEN "Active" ELSE statusBefore
        /\ Len(out) >= 1 /\ out[1].sig = "NewStatus" /\ out[1].arg = <<sni.mStatus>>
        /\ Sent(out, "NewStatus") = {1}
        /\ Sent(out, CallbackOf(op.name)) = IF Registered(op.name) THEN {Len(out)} ELSE {}
        /\ Registered(op.name) => (Len(out) > 1 /\ out[Len(out)].arg = op.arg)
        /\ Sent(out, CallbackOf(IF op.name = "Activate" THEN "SecondaryActivate"
                                                         ELSE "Activate")) = {}

\* SecondaryActivate has run on an item in NeedsAttention with both callbacks registered
C15_Witness ==
    /\ op.name = "SecondaryActivate"
    /\ statusBefore = "NeedsAttention"
    /\ cbs = {"activate", "secondary"}
    /\ op.arg = <<10, 20>>

\* C16: setTitle(T) on an item whose title is T sends no title notification; Activate(x, y)
\* on an item in NeedsAttention with a registered activation callback sends exactly one
\* status notification, carrying Active, and invokes the callback exactly once, with (x, y).
C16_Scenario ==
    [][ /\ (op'.name = "setTitle" /\ op'.arg = sni.mTitle) => Sent(out', "NewTitle") = {}
        /\ (op'.name = "Activate" /\ sni.mStatus = "NeedsAttention" /\ "activate" \in cbs) =>
               /\ Cardinality(Sent(out', "NewStatus")) = 1
               /\ \A k \in Sent(out', "NewStatus") : out'[k].arg = <<"Active">>
               /\ Cardinality(Sent(out', "activate_cb")) = 1
               /\ \A k \in Sent(out', "activate_cb") : out'[k].arg = op'.arg ]_vars

\* Activate(10, 20) has run on an item titled "Demo" that was in NeedsAttention, with the
\* activation callback registered
C16_Witness ==
    /\ op.name = "Activate" /\ op.arg = <<10, 20>>
    /\ statusBefore = "NeedsAttention"
    /\ "activate" \in cbs
    /\ sni.mTitle = "Demo"

\* C17: the status of the item is always one of Passive, Active, NeedsAttention.
C17_StatusInDomain == sni.mStatus \in {"Passive", "Active", "NeedsAttention"}

Registrations == Cardinality(Sent(out, "RegisterStatusNotifierItem"))

\* C18: constructing the item issues one RegisterStatusNotifierItem call; a change of the
\* watcher's owner from empty to non-empty issues one while the item exists; a change to
\* an empty owner issues none.
C18_Registration ==
    /\ op.name = "create_tray" => Registrations = 1
    /\ (op.name = "onServiceOwnerChanged" /\ built /\ op.arg[1] = "" /\ op.arg[2] # "")
           => Registrations = 1
    /\ (op.name = "onServiceOwnerChanged" /\ op.arg[2] = "") => Registrations = 0

\* the watcher has just got an owner after having none while the item exists, and the
\* registration was issued
C18_Witness ==
    /\ op.name = "onServiceOwnerChanged" /\ built
    /\ op.arg[1] = "" /\ op.arg[2] # ""
    /\ Registrations = 1

\* C19: a step that changes the menu path sends exactly one PropertiesChanged message,
\* carrying "Menu" and the new path, and no other signal about the menu; a step that
\* leaves the path as it is sends no PropertiesChanged message.
C19_MenuPathBroadcast ==
    [][ /\ sni'.mMenuPath # sni.mMenuPath =>
               /\ Cardinality(Sent(out', "PropertiesChanged")) = 1
               /\ \A k \in Sent(out', "PropertiesChanged") :
                      out'[k].arg = <<"Menu", sni'.mMenuPath>>
               /\ \A k \in 1..Len(out') :
                      out'[k].sig \in {"PropertiesChanged", "RegisterStatusNotifierItem"}
        /\ sni'.mMenuPath = sni.mMenuPath => Sent(out', "PropertiesChanged") = {} ]_vars

\* setContextMenu has just replaced the attached menu by another one: the path did not
\* change and nothing was sent
C19_Witness ==
    /\ op.name = "setContextMenu"
    /\ op.arg # NoMenu
    /\ sni.mMenu = op.arg
    /\ out = <<>>
    /\ \E menu \in Menus : menu # op.arg /\ menus[menu] = "alive" /\ menu \notin conn

\* C20: forceUpdate sends the icon, the tooltip and the status notification exactly once
\* each, the last carrying the stored status, sends nothing else and changes no field.
C20_ForceUpdate ==
    [][ op'.name = "forceUpdate" =>
            /\ sni' = sni
            /\ Len(out') = 3
            /\ Cardinality(Sent(out', "NewIcon")) = 1
            /\ Cardinality(Sent(out', "NewToolTip")) = 1
            /\ Cardinality(Sent(out', "NewStatus")) = 1
            /\ \A k \in Sent(out', "NewStatus") : out'[k].arg = <<sni.mStatus>> ]_vars

\* forceUpdate has run on an item whose status and icon had been set before
C20_Witness ==
    /\ op.name = "forceUpdate"
    /\ sni.mStatus = "Passive"
    /\ sni.mIcon # <<>>


\* ---------------------------------------------------------------- handle properties
HandleCalls == {"set_title", "destroy_handle", "show_notification"}

\* C21: an entry point called with a null handle, or with the handle of an item that
\* destroy_handle has been called on, is a silent no-op: it changes no state of the item
\* or of the library, sends nothing, ends nothing and does not touch the object behind
\* the handle.
C21_StaleHandleIsNoOp ==
    [][ (op'.name \in HandleCalls /\ (op'.arg.handle = NullHandle \/ life # "alive")) =>
            /\ sni' = sni
            /\ out' = <<>>
            /\ life' = life /\ trayCount' = trayCount /\ timer' = timer
            /\ pending' = pending /\ fault' = fault
            /\ ~op'.arg.deref ]_vars


\* C24: show_notification on a live item issues exactly one Notify call and does not
\* wait for the reply of the notification service: when the call has been issued the
\* item's thread is not blocked on the service.
C24_FireAndForget ==
    (op.name = "show_notification" /\ op.arg.handle # NullHandle /\ life = "alive") =>
        /\ Cardinality(Sent(out, "Notify")) = 1
        /\ pending = "none"


\* ---------------------------------------------------------------- encoder properties
Encoded == op.name = "iconToPixmapList"

\* the images the icon renders at the sizes the encoder asks for, as 32-bit ARGB
RenderedARGB(icon) ==
    LET sizes == IF icon.sizes = <<>> THEN DefaultSizes ELSE icon.sizes
    IN SelectSeq([i \in 1..Len(sizes) |-> convertToFormat(pixmap(icon, sizes[i]))],
                 LAMBDA g : ~ImageIsNull(g))

\* the word a little-endian host reads from four bytes of memory
LittleEndianWord(b) == <<b[4], b[3], b[2], b[1]>>

\* C25: iconToPixmapList never returns an empty list, whatever the icon: not for an icon
\* that reports no sizes, and not for one whose every rendering, the 32x32 one included,
\* is a null image.
C25_NeverEmpty == Encoded => pixmaps # <<>>

\* C26: on a little-endian host every entry of the list holds width * height 32-bit
\* words, the bytes of each word are the pixel's bytes most significant first, and
\* reversing each group of four bytes gives back, read by the host, the 32-bit ARGB
\* pixels of the image.
C26_BigEndianRoundTrip ==
    (Encoded /\ byteOrder = "LittleEndian") =>
        LET imgs == RenderedARGB(op.arg)
        IN /\ Len(pixmaps) = Len(imgs)
           /\ \A i \in 1..Len(pixmaps) :
                 LET e == pixmaps[i]
                     group(n) == SubSeq(e.bytes, 4 * n - 3, 4 * n)
                 IN /\ e.width = imgs[i].width
                    /\ e.height = imgs[i].height
                    /\ Len(e.bytes) = 4 * e.width * e.height
                    /\ \A n \in 1..(e.width * e.height) :
                          /\ group(n) = imgs[i].pixels[n]
                          /\ LittleEndianWord(Reverse4(group(n))) = imgs[i].pixels[n]

\* a little-endian host has encoded a two-pixel image whose first pixel is 0xFF112233
\* and whose second, 0x80402010 premultiplied, is 0x80804020 as plain ARGB
C26_Witness ==
    /\ Encoded
    /\ byteOrder = "LittleEndian"
    /\ op.arg.kind = "bitmap"
    /\ op.arg.image.format = "ARGB32_Premultiplied"
    /\ Len(pixmaps) = 1
    /\ pixmaps[1].bytes = <<255, 17, 34, 51, 128, 128, 64, 32>>


\* ---------------------------------------------------------------- scroll properties
\* two strings that differ at most in the case of their ASCII letters
UpperCase(c) == IF c \in 97..122 THEN c - 32 ELSE c
SameIgnoringCase(a, b) ==
    /\ Len(a) = Len(b)
    /\ \A i \in 1..Len(a) : UpperCase(a[i]) = UpperCase(b[i])

ScrollCalls == SelectSeq(out, LAMBDA e : e.sig = "scroll_cb")

\* C27: Scroll(delta, orientation) calls the registered scroll callback exactly once,
\* with the delta it was given and with 1 (horizontal) exactly when the orientation
\* string is "horizontal" up to the case of its letters; any other string, the empty
\* one included, gives 0 (vertical).
C27_ScrollCallback ==
    (op.name = "Scroll" /\ "scroll" \in cbs) =>
        /\ Len(ScrollCalls) = 1
        /\ ScrollCalls[1].arg =
              <<op.arg[1], IF SameIgnoringCase(op.arg[2], Str_horizontal) THEN 1 ELSE 0>>
        /\ SelectSeq(out, LAMBDA e : e.sig = "scrollRequested") =
              <<[sig |-> "scrollRequested",
                 arg |-> <<op.arg[1], IF SameIgnoringCase(op.arg[2], Str_horizontal)
                                      THEN "Horizontal" ELSE "Vertical">>]>>

\* the host scrolled with "HORIZONTAL" and the callback was called with 1
C27_Witness ==
    /\ op.name = "Scroll"
    /\ "scroll" \in cbs
    /\ op.arg[2] = <<72, 79, 82, 73, 90, 79, 78, 84, 65, 76>>
    /\ Len(ScrollCalls) = 1
    /\ ScrollCalls[1].arg = <<op.arg[1], 1>>


\* ---------------------------------------------------------------- shutdown properties
\* C29: the shutdown that destroy_handle schedules when the last tray goes is never run
\* by the thread of the item, not even when destroy_handle was called from a callback
\* that runs on that thread.
C29_NoShutdownOnItemThread == ItemThread \notin shutdownBy


\* ---------------------------------------------------------------- bridge properties
\* the positions of the log at which sig happened
LogPos(log, sig) == {k \in 1..Len(log) : log[k].sig = sig}

\* C30: when setContextMenu replaces or removes an attached menu, and when
\* onMenuDestroyed runs, the bridge that exists is deleted before the menu path changes
\* and before a new bridge is created, so that there is never more than one bridge;
\* setContextMenu with the menu that is already stored changes nothing, sends nothing
\* and neither deletes nor creates a bridge.
C30_BridgeDeletedFirst ==
    [][ op'.name \in {"setContextMenu", "menu_destroyed"} =>
          LET log == evs'
              dels == LogPos(log, "delete_exporter")
              news == LogPos(log, "new_exporter")
              paths == LogPos(log, "PropertiesChanged")
              had == IF BridgeExists THEN 1 ELSE 0
              ran == IF op'.name = "setContextMenu"
                     THEN sni.mMenu # NoMenu /\ op'.arg # sni.mMenu
                     ELSE op'.arg \in conn
              live(n) == had + Cardinality(news \cap 1..n)
                             - (IF BridgeExists THEN Cardinality(dels \cap 1..n) ELSE 0)
          IN /\ (ran /\ BridgeExists) =>
                   /\ Cardinality(dels) = 1
                   /\ \A d \in dels : log[d].arg = sni.mMenuExporter
                   /\ \A d \in dels, k \in news \cup paths : d < k
             /\ \A n \in 0..Len(log) : live(n) <= 1
             /\ (op'.name = "setContextMenu" /\ op'.arg = sni.mMenu) =>
                   (sni' = sni /\ out' = <<>> /\ evs' = <<>>) ]_vars

\* setContextMenu has replaced an attached menu by another one: the bridge of the old
\* menu was deleted, then the bridge of the new one created
C30_Witness ==
    /\ op.name = "setContextMenu"
    /\ Len(evs) = 2
    /\ evs[1].sig = "delete_exporter"
    /\ evs[2].sig = "new_exporter"
    /\ evs[2].arg = op.arg
    /\ evs[1].arg # op.arg


\* ---------------------------------------------------------------- status notifications
\* C36: outside forceUpdate a status-change notification is sent only when the stored
\* status has changed: Activate and SecondaryActivate on an item whose status is not
\* NeedsAttention send none.
C36_StatusNotifiedOnChange ==
    /\ (op.name \in {"Activate", "SecondaryActivate"} /\ statusBefore # "NeedsAttention")
           => Sent(out, "NewStatus") = {}
    /\ (op.name \in {"Activate", "SecondaryActivate", "setStatus"}
            /\ Sent(out, "NewStatus") # {}) => sni.mStatus # statusBefore


\* ---------------------------------------------------------------- replaced menus
\* C37: once menu B has replaced menu A in the item, the destruction of A leaves the
\* stored reference, the bridge of B and the path "/MenuBar" as they are, and the
\* destruction of B detaches the item: no reference, no bridge, the no-menu path.
C37_OnlyLastMenuObserved ==
    [][ (op'.name = "menu_destroyed" /\ sni.mMenu # NoMenu /\ prevMenu # NoMenu) =>
          /\ op'.arg = prevMenu =>
                /\ sni'.mMenu = sni.mMenu
                /\ sni'.mMenuExporter = sni.mMenu
                /\ sni'.mMenuPath = MenuBarPath
          /\ op'.arg = sni.mMenu =>
                /\ sni'.mMenu = NoMenu
                /\ sni'.mMenuExporter = NoMenu
                /\ sni'.mMenuPath = noMenuPathForEnvironment ]_vars


\* ---------------------------------------------------------------- callback registration
\* the entry point that registers the callback of an event and the inbound call that
\* raises the event
SetterOf(e) ==
    CASE e = "activate" -> "set_activate_callback"
      [] e = "secondary" -> "set_secondary_activate_callback"
      [] e = "scroll" -> "set_scroll_callback"
InboundOf(e) ==
    CASE e = "activate" -> "Activate"
      [] e = "secondary" -> "SecondaryActivate"
      [] e = "scroll" -> "Scroll"

\* the C callbacks an operation called, in order, each as <<callback, data>>
CallbacksCalled(log) ==
    LET made == SelectSeq(log, LAMBDA e : e.sig = "callback")
    IN [k \in 1..Len(made) |-> <<made[k].arg[1], made[k].arg[3]>>]

\* what a registration asks for: its callback with its data, nothing for a null callback
Asked(reg) == IF reg.cb = NullCallback THEN <<>> ELSE <<<<reg.cb, reg.data>>>>

\* C40: at most one callback is registered for an event, the one of the latest
\* registration: an inbound call calls that callback once, with the data registered
\* with it, and no callback registered earlier; it calls nothing when the latest
\* registration passed a null callback.  Only a registration (or the end of the item)
\* changes what is registered.
C40_LatestCallbackOnly ==
    [][ \A e \in CallbackEvents :
          /\ Len(slots'[e]) <= 1
          /\ op'.name = SetterOf(e) =>
                [k \in 1..Len(slots'[e]) |-> <<slots'[e][k].cb, slots'[e][k].data>>]
                    = Asked(op'.arg)
          /\ (op'.name # SetterOf(e) /\ op'.name # "item_deleted") => slots'[e] = slots[e]
          /\ op'.name = InboundOf(e) =>
                CallbacksCalled(evs') =
                    [k \in 1..Len(slots[e]) |-> <<slots[e][k].cb, slots[e][k].data>>]
          /\ (op.name = SetterOf(e) /\ op'.name = InboundOf(e)) =>
                CallbacksCalled(evs') = Asked(op.arg) ]_vars

\* Activate has called g with its data d2, and nothing else, on an item on which g is
\* the registered activation callback
C40_Witness ==
    /\ op.name = "Activate"
    /\ slots["activate"] = <<[cb |-> "g", data |-> "d2"]>>
    /\ CallbacksCalled(evs) = <<<<"g", "d2">>>>


\* ---------------------------------------------------------------- forced refresh
\* C32: every tray_update on a live item sends at least one title, one tooltip and one
\* status notification, whatever the title, the tooltip title and the status are, and
\* at least one icon notification when an icon name is set; the title, the tooltip
\* title, the status and the icon name are afterwards what they were before.
C32_TrayUpdateReemits ==
    [][ op'.name = "tray_update" =>
          /\ Sent(out', "NewTitle") # {}
          /\ Sent(out', "NewToolTip") # {}
          /\ Sent(out', "NewStatus") # {}
          /\ sni.mIconName # "" => Sent(out', "NewIcon") # {}
          /\ sni'.mTitle = sni.mTitle
          /\ sni'.mTooltipTitle = sni.mTooltipTitle
          /\ sni'.mStatus = sni.mStatus
          /\ sni'.mIconName = sni.mIconName ]_vars


\* C33: set_icon_by_path resets the stored cache key of the primary icon before
\* setIconByPixmap runs, whatever the slot holds: every call stores the pixmaps of the
\* new icon under its key, leaves the slot's name empty and sends an icon
\* notification, also when the key of the new icon is the key that was stored.
C33_IconByPathRefreshes ==
    op.name = "set_icon_by_path" =>
        /\ sni.mIcon = iconToPixmapList(op.arg)
        /\ sni.mIconCacheKey = op.arg.key
        /\ sni.mIconName = ""
        /\ Sent(out, "NewIcon") # {}


\* ---------------------------------------------------------------- tray counter
\* C35: trayCount is the number of tray items created and not yet destroyed, it is
\* never negative, and the shutdown timer is started only when no live item remains.
C35_TrayCountExact ==
    /\ trayCount = IF life = "alive" THEN 1 ELSE 0
    /\ trayCount >= 0
    /\ timer # {} => life # "alive"


\* C31: create_tray dispatches createSNI with a direct call or a synchronous rendezvous,
\* never asynchronously; every create_tray call with a non-null id that has returned
\* returned the non-null handle of the constructed item; and the caller's `result` is
\* never written after create_tray has returned
C31_CreateTraySynchronous ==
    /\ hist.trayModes \subseteq {"Direct", "BlockingQueued"}
    /\ hist.trayRet \subseteq {"item"}
    /\ ~hist.lateWrite


\* thread c is inside a sni_process_events call made by sni_exec
InEvents(c) == \E k \in 1..Len(stk[c]) : stk[c][k] = "exec"

\* thread c is back from every sni_process_events call it makes in sni_exec
EventsReturn(c) == []<>(~InEvents(c))

\* at most one thread polls
SingleLoop == [](\A c, d \in Callers : InExec(c) /\ InExec(d) => c = d)

\* C34: a stop request is not lost for a single polling loop: when sni_stop_exec has
\* been called before or during a run of sni_exec whose sni_process_events calls return,
\* that sni_exec returns; when it returns the running flag is true again, and no
\* sni_exec returns without a stop request of its own
C34_StopNotLost ==
    /\ \A c \in Callers :
          EventsReturn(c) /\ SingleLoop => ((InExec(c) /\ ~sni_running) ~> pc[c] = "idle")
    /\ [][hist.execReturns' # hist.execReturns => sni_running']_vars
    /\ [](hist.execReturns <= hist.stops)

\* sni_exec has polled, was stopped and has returned, and the flag is true again
C34_Witness ==
    /\ hist.execReturns = 1 /\ hist.stops = 1 /\ sni_running
    /\ \E i \in 1..Len(work) : work[i].fn = "pump" /\ work[i].returned
    /\ \A c \in Callers : ~InExec(c)


\* C38: the submenu-to-action map holds, for every submenu made by create_submenu that
\* is still alive, the action of that submenu; it holds no entry whose submenu or
\* action has been destroyed; and set_submenu_icon sets the icon on that action and
\* never on a destroyed one
C38_SubmenuMapTracksLiveActions ==
    /\ \A sub \in Menus :
          parentOf[sub] # NoMenu /\ menus[sub] \in {"alive", "deleting"}
              => submenuToAction[sub] = menuAction(sub)
    /\ \A sub \in Menus :
          submenuToAction[sub] # NoAction
              => menus[sub] # "destroyed" /\ menus[menuOf(submenuToAction[sub])] # "destroyed"
    /\ op.name = "set_submenu_icon" /\ parentOf[op.arg.submenu] # NoMenu
          => op.arg.action = menuAction(op.arg.submenu) /\ op.arg.live


\* thread c waits for a call that sits in its own queue: nothing can deliver it
BlockedForever(c) ==
    /\ pc[c] = "rb_wait"
    /\ \E k \in 1..Len(queue[c]) : queue[c][k] = waitId[c]

\* C39: no entry point call blocks its caller forever, before, during or after a
\* shutdown_tray_system, and a shutdown_tray_system made after a later
\* init_tray_system tears the manager down again
C39_CallsReturnAndTeardownRepeats ==
    /\ \A c \in Callers : ~BlockedForever(c)
    /\ ~hist.noTeardown

====
